---- MODULE Spec2Model ----
(***************************************************************************)
(* Model of the prompt-sync install / verify pipeline                      *)
(* (workflow.Installer.Execute) together with the components it drives:    *)
(* trust policy, adapters, conflict detector, lock store and ignore block. *)
(*                                                                         *)
(* Go strings are modelled as sequences of tokens ("github.com", ":",      *)
(* "acme", "/", ...), so that prefix/suffix trimming, splitting at "#" and *)
(* basename extraction are computed the way the code computes them.        *)
(***************************************************************************)
EXTENDS Integers, Sequences, FiniteSets, TLC

\* ------------------------------------------------------------------ bounds
\* longest `sources` list of a Promptsfile in the model
MaxSources == 2
\* number of times the user touches the rendered outputs in one behaviour
MaxTouches == 1

\* ------------------------------------------------------- string primitives
HasPrefix(s, p) == Len(s) >= Len(p) /\ SubSeq(s, 1, Len(p)) = p

HasSuffix(s, p) == Len(s) >= Len(p) /\ SubSeq(s, Len(s) - Len(p) + 1, Len(s)) = p

TrimPrefix(s, p) == IF HasPrefix(s, p) THEN SubSeq(s, Len(p) + 1, Len(s)) ELSE s

TrimSuffix(s, p) == IF HasSuffix(s, p) THEN SubSeq(s, 1, Len(s) - Len(p)) ELSE s

\* strings.Split(s, sep) for a one-token separator
RECURSIVE Split(_, _)
Split(s, sep) ==
  IF \E i \in 1..Len(s) : s[i] = sep
  THEN LET i == CHOOSE k \in 1..Len(s) : s[k] = sep /\ \A j \in 1..(k - 1) : s[j] # sep
       IN  <<SubSeq(s, 1, i - 1)>> \o Split(SubSeq(s, i + 1, Len(s)), sep)
  ELSE <<s>>

\* filepath.Base: the tokens after the last "/"
RECURSIVE Base(_)
Base(p) ==
  IF \E i \in 1..Len(p) : p[i] = "/"
  THEN Base(SubSeq(p, (CHOOSE k \in 1..Len(p) : p[k] = "/" /\ \A j \in 1..(k - 1) : p[j] # "/") + 1, Len(p)))
  ELSE p

\* byte order of the tokens that occur in sorted strings
Alphabet ==
  << "-", ".claude/commands", ".cursor/rules/_active", ".git", "/", ":",
     "a", "acme", "b", "commands", "evil", "github.com", "https://",
     "p.md", "prompts", "q.md", "r.md", "rules", "sub", "x" >>

Rank(t) == CHOOSE i \in 1..Len(Alphabet) : Alphabet[i] = t

\* s < t in lexicographic (byte) order
RECURSIVE StrLess(_, _)
StrLess(s, t) ==
  IF t = <<>> THEN FALSE
  ELSE IF s = <<>> THEN TRUE
  ELSE IF s[1] = t[1] THEN StrLess(Tail(s), Tail(t))
  ELSE Rank(s[1]) < Rank(t[1])

\* the elements of a finite set of strings in increasing order
RECURSIVE SortedStrings(_)
SortedStrings(S) ==
  IF S = {} THEN <<>>
  ELSE LET m == CHOOSE x \in S : \A y \in S \ {x} : StrLess(x, y)
       IN  <<m>> \o SortedStrings(S \ {m})

\* ------------------------------------------------------------ trust policy
\* security.canonical
canonical(u) ==
  IF HasPrefix(u, <<"file://">>) THEN u
  ELSE LET a == TrimPrefix(u, <<"git@">>)
           b == TrimPrefix(a, <<"https://">>)
           c == TrimPrefix(b, <<"ssh://">>)
           d == IF HasPrefix(c, <<"github.com", "/">>)
                THEN <<"github.com", ":">> \o SubSeq(c, 3, Len(c))
                ELSE c
       IN  TrimSuffix(d, <<".git">>)


\* a match that knows no wildcard
matchRepoExact(repoURL, allowed) == repoURL = allowed

\* security.matchRepo
matchRepo(repoURL, allowed) ==
  IF HasSuffix(allowed, <<"*">>)
  THEN HasPrefix(repoURL, TrimSuffix(allowed, <<"*">>))
  ELSE repoURL = allowed

\* security.NewTrustedSources: the built-in allow list
TrustedList ==
  << <<"github.com", ":", "acme", "/", "*">>,
     <<"github.com", ":", "tools", "/", "*">>,
     <<"github.com", ":", "org", "/", "*">>,
     <<"github.com", ":", "project", "/", "*">>,
     <<"github.com", ":", "personal", "/", "*">>,
     <<"github.com", ":", "pack1", "/", "*">>,
     <<"github.com", ":", "pack2", "/", "*">> >>

\* security.TrustedSources.IsTrusted
IsTrusted(repoURL) ==
  \E i \in 1..Len(TrustedList) : matchRepo(canonical(repoURL), TrustedList[i])


\* security.EnsureTrusted on the Repo fields of cfg.Sources: TRUE when it
\* returns nil
EnsureTrusted(repoURL, sources, allowUnknown) ==
  \/ \E i \in 1..Len(sources) : matchRepo(canonical(repoURL), canonical(sources[i]))
  \/ allowUnknown

\* ------------------------------------------------- configuration (loader)
UrlA == <<"github.com", ":", "acme", "/", "a">>

UrlB == <<"https://", "github.com", "/", "acme", "/", "b", ".git">>

UrlX == <<"github.com", ":", "evil", "/", "x">>

\* a repository that holds two prompt files
UrlP == <<"github.com", ":", "acme", "/", "pq">>

\* textual form <url>#<ref> of a source
WithRef(u, r) == u \o <<"#", r>>

\* the refs the model writes after "#": two tags of the remotes and a
\* tag no remote has
Refs == {"v1", "v2", "v9"}

\* the refs a Promptsfile of the model may give to a source
RefsOf(u) ==
  CASE u = UrlA -> {"v1", "v2"}
    [] u = UrlB -> {"v1", "v2"}
    [] OTHER -> {"v1", "v9"}

Urls == {UrlA, UrlB, UrlX}

\* config.Overlay lists a Promptsfile of the model may have
OverlayLists ==
  { <<>>,
    << [scope |-> "org", source |-> WithRef(UrlX, "v1")] >> }

\* lists of distinct urls, each with one of its refs
SourceLists ==
  UNION { { s \in [1..k -> { WithRef(u, r) : u \in Urls, r \in Refs }] :
              /\ \A i \in 1..k : \E u \in Urls : \E r \in RefsOf(u) : s[i] = WithRef(u, r)
              /\ \A i, j \in 1..k : i # j => Split(s[i], "#")[1] # Split(s[j], "#")[1] } :
          k \in 0..MaxSources }

\* config.ExtendedConfig: the parsed Promptsfiles of the model. At most
\* MaxSources sources, overlays included; a Promptsfile with more than one
\* of them leaves the adapters to the loader's default
Promptsfiles ==
  { f \in { [sources |-> s, overlays |-> o, cursor |-> ad[1], claude |-> ad[2], prefix |-> "acme"] :
              s \in SourceLists, o \in OverlayLists,
              ad \in { <<FALSE, FALSE>>, <<FALSE, TRUE>>, <<TRUE, TRUE>> } } :
      /\ Len(f.sources) + Len(f.overlays) <= MaxSources
      /\ f.claude => Len(f.sources) + Len(f.overlays) <= 1 }

\* config.Loader.Load: cursor is enabled when no adapter is
Load(file) ==
  IF ~file.cursor /\ ~file.claude THEN [file EXCEPT !.cursor = TRUE] ELSE file

AdapterNames == {"cursor", "claude"}

\* Installer.isAdapterEnabled
isAdapterEnabled(c, name) ==
  CASE name = "cursor" -> c.cursor
    [] name = "claude" -> c.claude
    [] OTHER -> FALSE

\* Installer.getAdapterConfig
getAdapterConfig(c, name) ==
  CASE name = "cursor" -> [Enabled |-> c.cursor, Prefix |-> ""]
    [] name = "claude" -> [Enabled |-> c.claude, Prefix |-> c.prefix]
    [] OTHER -> [Enabled |-> FALSE, Prefix |-> ""]

\* ------------------------------------------------------- fetcher capability
SrcFile(dir, name, content) == [path |-> <<dir, "/", name>>, content |-> content]

\* the trees of the remotes at their tags and at branch main (fixed: the
\* refs do not move); the other branches of UrlA, and UrlA without a ref,
\* hold the tree of main
RemoteTree(url, ref) ==
  LET c == canonical(url) IN
  CASE c = canonical(UrlA) /\ ref = <<"v1">> ->
         { SrcFile("prompts", "q.md", "a1q") }
    [] c = canonical(UrlA) /\ ref = <<"v2">> ->
         { SrcFile("prompts", "p.md", "a2p") }
    [] c = canonical(UrlB) /\ ref = <<"v1">> ->
         { SrcFile("prompts", "p.md", "b1p") }
    [] c = canonical(UrlB) /\ ref = <<"v2">> ->
         { SrcFile("rules", "r.md", "b2r") }
    [] c = canonical(UrlX) /\ ref = <<"v1">> ->
         { SrcFile("prompts", "q.md", "x1q") }
    [] c = canonical(UrlA) /\ ref = <<"main">> ->
         { SrcFile("prompts", "q.md", "amq") }
    [] c = canonical(UrlB) /\ ref = <<"main">> ->
         { SrcFile("rules", "r.md", "bmr") }
    [] c = canonical(UrlA) /\ ref \in {<<>>, <<"master">>, <<"develop">>, <<"dev">>} ->
         { SrcFile("prompts", "q.md", "amq") }
    [] c = canonical(UrlP) /\ ref = <<"v1">> ->
         { SrcFile("prompts", "p.md", "c1p"), SrcFile("prompts", "q.md", "c1q") }
    [] OTHER -> {}

RemoteHasRef(url, ref) == RemoteTree(url, ref) # {}

\* Fetcher.CloneOrUpdate for a tag ref: the working tree at the tag and its
\* commit, or an error (ref not found) when the remote has no such tag
CloneOrUpdate(url, ref) ==
  IF RemoteHasRef(url, ref)
  THEN [ok |-> TRUE, tree |-> RemoteTree(url, ref), commit |-> <<canonical(url), ref>>]
  ELSE [ok |-> FALSE, tree |-> {}, commit |-> <<>>]

\* ----------------------------------------------------------------- adapters
\* SimpleAdapter.DiscoverFiles: the files under prompts/, else under the
\* adapter's alternate directory, in filepath.Walk (lexical) order
DiscoverFiles(name, tree) ==
  LET dirs == { f.path[1] : f \in tree }
      alt  == IF name = "cursor" THEN "rules" ELSE "commands"
      dir  == IF "prompts" \in dirs THEN "prompts"
              ELSE IF alt \in dirs THEN alt ELSE ""
  IN  SortedStrings({ f.path : f \in { g \in tree : g.path[1] = dir } })

\* os.ReadFile(filepath.Join(repoPath, file))
ReadSource(tree, file) == (CHOOSE f \in tree : f.path = file).content

\* SimpleAdapter.RenderFile: pass-through
RenderFile(name, file, content, acfg) == content

\* SimpleAdapter.GetOutputPath
GetOutputPath(name, inputPath, acfg) ==
  IF name = "cursor"
  THEN <<".cursor/rules/_active", "/">> \o Base(inputPath)
  ELSE IF acfg.Prefix # ""
       THEN <<".claude/commands", "/", acfg.Prefix, "-">> \o Base(inputPath)
       ELSE <<".claude/commands", "/">> \o Base(inputPath)

\* SimpleAdapter.GetGitignorePatterns
GetGitignorePatterns(name, acfg) ==
  IF name = "cursor"
  THEN << <<".cursor/rules/_active", "/">> >>
  ELSE IF acfg.Prefix # ""
       THEN << <<".claude/commands", "/", acfg.Prefix, "-", "*">> >>
       ELSE << <<".claude/commands", "/", "*">> >>

\* SimpleAdapter.GetBaseOutputDir
GetBaseOutputDir(name, acfg) ==
  IF name = "cursor" THEN ".cursor/rules/_active" ELSE ".claude/commands"

\* --------------------------------------------------------------- lock store
\* Hasher: "sha256:<hex>" of the bytes
HashBytes(content) == <<"sha256:", content>>

\* lock.Writer.CalculateFileHash on the workspace file system d
CalculateFileHash(d, path) ==
  IF path \in DOMAIN d
  THEN [ok |-> TRUE, hash |-> HashBytes(d[path])]
  ELSE [ok |-> FALSE, hash |-> <<>>]

NoLock == [present |-> FALSE, sources |-> <<>>]

\* files of one lock source sorted by path (stable)
RECURSIVE SortFiles(_)
SortFiles(fs) ==
  IF fs = <<>> THEN <<>>
  ELSE LET rest == SortFiles(Tail(fs))
           x    == Head(fs)
           k    == Cardinality({ i \in 1..Len(rest) : StrLess(rest[i].path, x.path) })
       IN  SubSeq(rest, 1, k) \o <<x>> \o SubSeq(rest, k + 1, Len(rest))

\* lock sources sorted by url (stable)
RECURSIVE SortSources(_)
SortSources(ss) ==
  IF ss = <<>> THEN <<>>
  ELSE LET rest == SortSources(Tail(ss))
           x    == Head(ss)
           k    == Cardinality({ i \in 1..Len(rest) : StrLess(rest[i].url, x.url) })
       IN  SubSeq(rest, 1, k) \o <<x>> \o SubSeq(rest, k + 1, Len(rest))

\* lock.Writer.Write: the lock document written for the given sources
LockWrite(sources) ==
  [present |-> TRUE,
   sources |-> SortSources([i \in 1..Len(sources) |->
                  [sources[i] EXCEPT !.files = SortFiles(sources[i].files)]])]

\* lock.Writer.Exists
LockExists(l) == l.present

\* every file entry of a lock document, in document order
RECURSIVE LockEntries(_)
LockEntries(ss) ==
  IF ss = <<>> THEN <<>> ELSE Head(ss).files \o LockEntries(Tail(ss))

\* lock.Writer.GetFileHashes: flat map path -> recorded hash
GetFileHashes(l) ==
  LET es == LockEntries(l.sources)
  IN  [ p \in { es[i].path : i \in 1..Len(es) } |->
          es[CHOOSE i \in 1..Len(es) :
               es[i].path = p /\ \A j \in (i + 1)..Len(es) : es[j].path # p].hash ]

\* -------------------------------------------------------- conflict detector
\* Detector.ScanDirectory: one duplicate issue per basename found more than
\* once below dir
ScanDirectory(d, dir) ==
  LET below == { p \in DOMAIN d : HasPrefix(p, <<dir, "/">>) }
  IN  { [type |-> "duplicate", path |-> b] :
          b \in { Base(p) : p \in { q \in below :
                    Cardinality({ r \in below : Base(r) = Base(q) }) > 1 } } }

\* a drift check that reports missing files but never compares hashes
CheckDriftMissingOnly(d, files) ==
  { [type |-> "drift", path |-> p] :
      p \in { q \in DOMAIN files : ~CalculateFileHash(d, q).ok } }

\* a drift check that skips the files it cannot read
CheckDriftPresentOnly(d, files) ==
  { [type |-> "drift", path |-> p] :
      p \in { q \in DOMAIN files :
                /\ CalculateFileHash(d, q).ok
                /\ CalculateFileHash(d, q).hash # files[q] } }

\* Detector.CheckDrift: an issue per recorded path that is missing or whose
\* hash differs from the recorded one
CheckDrift(d, files) ==
  { [type |-> "drift", path |-> p] :
      p \in { q \in DOMAIN files :
                \/ ~CalculateFileHash(d, q).ok
                \/ CalculateFileHash(d, q).hash # files[q] } }

\* ------------------------------------------------------------- ignore block
ManagedBegin == <<"# BEGIN PROMPT-SYNC MANAGED">>

ManagedEnd == <<"# END PROMPT-SYNC MANAGED">>

NoIgnore == [present |-> FALSE, lines |-> <<>>]

IndexOf(lines, l) ==
  IF \E i \in 1..Len(lines) : lines[i] = l
  THEN CHOOSE i \in 1..Len(lines) : lines[i] = l /\ \A j \in 1..(i - 1) : lines[j] # l
  ELSE 0

\* gitignore.Manager.Update: replace the body of the managed block by the
\* patterns, creating file and block when missing
IgnoreUpdate(f, patterns) ==
  LET b == IndexOf(f.lines, ManagedBegin)
      e == IndexOf(f.lines, ManagedEnd)
      block == <<ManagedBegin>> \o patterns \o <<ManagedEnd>>
  IN  [present |-> TRUE,
       lines |-> IF b > 0 /\ e > b
                 THEN SubSeq(f.lines, 1, b - 1) \o block \o SubSeq(f.lines, e + 1, Len(f.lines))
                 ELSE f.lines \o block]

\* ------------------------------------------------ fetcher (go-git backend)
\* number of times the refs of the remote move in one behaviour
MaxMoves == 2

\* refs a caller may ask for: a tag of the remote, a tag the remote does not
\* have at first, the default branch and another branch
TagNames == {"v1", "v9"}

BranchNames == {"main", "dev"}

GitRefs == TagNames \cup BranchNames

\* the branch HEAD of the remote names
DefaultBranch == "main"

\* a ref names generation n of its history; 0: the ref does not exist
Gens == 0..(MaxMoves + 1)

RemoteInit == [ r \in GitRefs |-> IF r = "v9" THEN 0 ELSE 1 ]

Commit(r, n) == <<r, n>>

\* an empty cache: nothing of a repository to look at
NoRepo == [cloned |-> FALSE]

\* refs written as a commit id: the 40 hex digits of the commit that tag v9
\* names once the remote has it, and the first 7 of them
FullHash == "9f2c41d07be35a8866d1f0c2b3a4e5f60718293a"

ShortHash == "9f2c41d"

HashRefs == {FullHash, ShortHash}

\* the commit FullHash names
HashCommit == Commit("v9", 1)

\* isCommitHash: 7 to 40 hex digits; of the refs of the model, the two
\* commit ids
isCommitHash(s) == s \in HashRefs

\* the object store of the cache holds HashCommit once a clone or a fetch
\* has brought tag v9
HasObject(repo) == repo.tags["v9"] >= 1

\* Clone: "If ref looks like a branch, clone it directly" (no "v" prefix,
\* not a commit hash): of the refs of the model, the branch names
LooksLikeBranch(ref) == ref \notin {"v1", "v9"} /\ ~isCommitHash(ref)

\* a fetcher that contacts the network whatever Options.Offline says
NetworkAllowedAlways(offline) == TRUE

\* Options.Offline: "If true, only use cached repos (no network access)"
NetworkAllowed(offline) == ~offline

\* remote.Fetch with "+refs/tags/*:refs/tags/*": every tag of the remote
\* replaces the local one; local branches are not touched (the branch
\* refspec writes refs/remotes/origin/*, which no lookup reads)
FetchRefs(repo, rem) ==
  [repo EXCEPT !.tags = [ t \in TagNames |-> IF rem[t] > 0 THEN rem[t] ELSE repo.tags[t] ]]

\* a lookup that finds a local branch but leaves HEAD where it was
ResolveKeepHead(repo, ref) ==
  IF ref \in TagNames /\ repo.tags[ref] > 0
  THEN [ok |-> TRUE, repo |-> [repo EXCEPT !.head = Commit(ref, repo.tags[ref])]]
  ELSE [ok |-> ref \in BranchNames /\ repo.heads[ref] > 0, repo |-> repo]

\* the lookups of checkoutRef on the local refs: tag first, then branch,
\* then, for a ref that looks like a commit id, the object plumbing.NewHash
\* names: the commit for all 40 digits, no object for fewer
Resolve(repo, ref) ==
  IF ref \in TagNames /\ repo.tags[ref] > 0
  THEN [ok |-> TRUE, repo |-> [repo EXCEPT !.head = Commit(ref, repo.tags[ref])]]
  ELSE IF ref \in BranchNames /\ repo.heads[ref] > 0
       THEN [ok |-> TRUE, repo |-> [repo EXCEPT !.head = Commit(ref, repo.heads[ref])]]
       ELSE IF isCommitHash(ref) /\ ref = FullHash /\ HasObject(repo)
            THEN [ok |-> TRUE, repo |-> [repo EXCEPT !.head = HashCommit]]
            ELSE [ok |-> FALSE, repo |-> repo]

\* fetcher.checkoutRef: tag, local branch, commit id (whose checkout error
\* is returned at once), else (when not offline) fetch all refs and try the
\* tag again
checkoutRef(repo, rem, ref, offline) ==
  LET r == Resolve(repo, ref) IN
  IF r.ok THEN [ok |-> TRUE, repo |-> r.repo, net |-> {}]
  ELSE IF isCommitHash(ref) THEN [ok |-> FALSE, repo |-> repo, net |-> {}]
  ELSE IF NetworkAllowed(offline)
       THEN LET f == FetchRefs(repo, rem) IN
            IF ref \in TagNames /\ f.tags[ref] > 0
            THEN [ok |-> TRUE, repo |-> [f EXCEPT !.head = Commit(ref, f.tags[ref])],
                  net |-> {"fetch"}]
            ELSE [ok |-> FALSE, repo |-> f, net |-> {"fetch"}]
       ELSE [ok |-> FALSE, repo |-> repo, net |-> {}]

\* git.PlainClone: every tag, and a local branch for the branch asked for,
\* else for the default branch
PlainClone(rem, ref) ==
  LET b == IF LooksLikeBranch(ref) THEN ref ELSE DefaultBranch IN
  IF b \notin BranchNames \/ rem[b] = 0
  THEN [ok |-> FALSE, repo |-> NoRepo]
  ELSE [ok |-> TRUE,
        repo |-> [cloned |-> TRUE,
                  tags |-> [ t \in TagNames |-> rem[t] ],
                  heads |-> [ x \in BranchNames |-> IF x = b THEN rem[b] ELSE 0 ],
                  head |-> Commit(b, rem[b])]]

GitResult(ok, err, repo, net) == [ok |-> ok, err |-> err, repo |-> repo, net |-> net]

\* fetcher.Clone
Clone(repo, rem, ref, offline) ==
  IF repo.cloned
  THEN LET c == checkoutRef(repo, rem, ref, offline) IN
       IF c.ok THEN GitResult(TRUE, "", c.repo, c.net)
       ELSE GitResult(FALSE, "checkout ref", c.repo, c.net)
  ELSE IF ~NetworkAllowed(offline)
       THEN GitResult(FALSE, "offline mode: repository not cached", repo, {})
       ELSE LET p == PlainClone(rem, ref) IN
            IF ~p.ok THEN GitResult(FALSE, "clone repository", NoRepo, {"clone"})
            ELSE LET c == checkoutRef(p.repo, rem, ref, offline) IN
                 IF c.ok THEN GitResult(TRUE, "", c.repo, {"clone"} \cup c.net)
                 ELSE GitResult(FALSE, "checkout ref", NoRepo, {"clone"} \cup c.net)

\* fetcher.Update
Update(repo, rem, ref, offline) ==
  IF ~NetworkAllowed(offline)
  THEN GitResult(FALSE, "offline mode: cannot update", repo, {})
  ELSE IF ~repo.cloned
       THEN GitResult(FALSE, "repository not cloned", repo, {})
       ELSE LET c == checkoutRef(FetchRefs(repo, rem), rem, ref, offline) IN
            GitResult(c.ok, IF c.ok THEN "" ELSE "ref not found", c.repo, {"fetch"} \cup c.net)

\* fetcher.CloneOrUpdate: Clone, then (when not offline) Update with its
\* error ignored, then the commit of HEAD
GitCloneOrUpdate(repo, rem, ref, offline) ==
  LET c == Clone(repo, rem, ref, offline) IN
  IF ~c.ok THEN c
  ELSE IF ~offline
       THEN LET u == Update(c.repo, rem, ref, offline) IN
            GitResult(TRUE, "", u.repo, c.net \cup u.net)
       ELSE c

\* the errors of offline mode
OfflineErrors == {"offline mode: repository not cached", "offline mode: cannot update"}

\* no ref has been resolved by CloneOrUpdate yet
NoSeen == <<>>

\* the ref has not been resolved by CloneOrUpdate before
NoPrev == [known |-> FALSE]

NoCall == [op |-> "none"]

\* ================================================================== state
VARIABLES
  promptsfile,      \* the Promptsfile of the workspace (config.ExtendedConfig)
  disk,             \* rendered-output area of the workspace: path -> bytes
  lock,             \* Promptsfile.lock
  ignore,           \* .gitignore
  touches,          \* how often the user has touched the outputs or the lock file
  touched,          \* the user's last touch since an install last began
  since,            \* "installed"/"restored"/"recovered": nothing changed since a
                    \* successful install; "interrupted": since an install was killed
  pc,               \* position of Installer.Execute
  opts,             \* workflow.InstallOptions of the running Execute
  cfg,              \* cfg: the configuration loaded by this run
  oldFilesBySource, \* base url -> files recorded in the prior lock
  allSources,       \* flat sources followed by overlay sources
  si,               \* index of the source being processed
  cur,              \* url, ref, commit and tree of the fetched source
  todo,             \* (adapter, file) pairs of the source still to render
  lockFiles,        \* lock.File entries collected for the source
  lockSources,      \* lock.Source entries collected so far
  renderedFiles,    \* output path -> url that rendered it
  result,           \* the error (or success) Execute returns
  fetched,          \* urls handed to Fetcher.CloneOrUpdate by this run
  written,          \* output paths written by this run
  warnings,         \* "Warning: ..." lines printed by the command in progress
  snap,             \* workspace as it was when this run began
  cmd,              \* the CLI command in progress, with its environment and flags
  remote,           \* the remote repository: ref -> generation of the commit it names
  cache,            \* the repository's clone in the cache directory, if any
  seen,             \* resolved ref -> what CloneOrUpdate last returned, and what happened since
  last              \* the Fetcher call made last and what it returned

workspace == <<disk, lock, ignore>>

user == <<touches, touched, since>>

locals == <<cfg, oldFilesBySource, allSources, si, cur, todo, lockFiles,
            lockSources, renderedFiles>>

logs == <<fetched, written, warnings>>

fetcher == <<remote, cache, seen, last>>

vars == <<promptsfile, disk, lock, ignore, touches, touched, since, pc, opts, cfg,
          oldFilesBySource, allSources, si, cur, todo, lockFiles, lockSources,
          renderedFiles, result, fetched, written, warnings, snap, cmd, remote, cache,
          seen, last>>

\* ------------------------------------------------------------ empty values
NoConfig == [sources |-> <<>>, overlays |-> <<>>, cursor |-> FALSE, claude |-> FALSE, prefix |-> ""]

NoOpts == [StrictMode |-> FALSE, VerifyOnly |-> FALSE, AllowUnknown |-> FALSE]

NoFetch == [url |-> <<>>, ref |-> <<>>, commit |-> <<>>, tree |-> {}]

NoSnap == [disk |-> <<>>, lock |-> NoLock, ignore |-> NoIgnore, since |-> "dirty"]

NoTouch == [op |-> "none", path |-> <<>>]

Res(kind, urls, paths) == [kind |-> kind, urls |-> urls, paths |-> paths]

NoResult == Res("none", <<>>, {})

\* the InstallOptions the commands build: install and ci-install choose
\* strict mode, verify always runs strict
Options ==
  { o \in [StrictMode : BOOLEAN, VerifyOnly : BOOLEAN, AllowUnknown : BOOLEAN] :
      o.VerifyOnly => o.StrictMode }

\* --------------------------------------------------- helpers of Execute
Min(S) == CHOOSE x \in S : \A y \in S : x <= y

BaseURL(source) == Split(source, "#")[1]

RefOf(source) == IF Len(Split(source, "#")) > 1 THEN Split(source, "#")[2] ELSE <<>>

\* Execute, "Create a map of old files per source": later entries of the
\* lock replace earlier ones with the same base url
OldFilesBySource(l) ==
  IF ~l.present THEN <<>>
  ELSE [ u \in { BaseURL(l.sources[i].url) : i \in 1..Len(l.sources) } |->
           l.sources[CHOOSE i \in 1..Len(l.sources) :
                       /\ BaseURL(l.sources[i].url) = u
                       /\ \A j \in (i + 1)..Len(l.sources) : BaseURL(l.sources[j].url) # u].files ]

\* a validation that stops after the sources list and never looks at overlays
ValidateFlatOnly(c, allowUnknown) ==
  LET badS == { i \in 1..Len(c.sources) :
                  ~IsTrusted(BaseURL(c.sources[i])) /\ ~allowUnknown }
  IN  IF badS # {} THEN [ok |-> FALSE, url |-> BaseURL(c.sources[Min(badS)])]
      ELSE [ok |-> TRUE, url |-> <<>>]

\* a validation that looks at the first source and the first overlay only
ValidateFirstOnly(c, allowUnknown) ==
  IF c.sources # <<>> /\ ~IsTrusted(BaseURL(c.sources[1])) /\ ~allowUnknown
  THEN [ok |-> FALSE, url |-> BaseURL(c.sources[1])]
  ELSE IF c.overlays # <<>> /\ ~IsTrusted(BaseURL(c.overlays[1].source)) /\ ~allowUnknown
       THEN [ok |-> FALSE, url |-> BaseURL(c.overlays[1].source)]
       ELSE [ok |-> TRUE, url |-> <<>>]

\* a validation that lets every source through, as if the trust decision
\* were always to allow
ValidateNothing(c, allowUnknown) == [ok |-> TRUE, url |-> <<>>]

\* Execute, "Validate sources against trusted list" and the overlay loop:
\* the first source, else the first overlay source, that is not trusted
ValidateSources(c, allowUnknown) ==
  LET badS == { i \in 1..Len(c.sources) :
                  ~IsTrusted(BaseURL(c.sources[i])) /\ ~allowUnknown }
      badO == { i \in 1..Len(c.overlays) :
                  ~IsTrusted(BaseURL(c.overlays[i].source)) /\ ~allowUnknown }
  IN  IF badS # {} THEN [ok |-> FALSE, url |-> BaseURL(c.sources[Min(badS)])]
      ELSE IF badO # {} THEN [ok |-> FALSE, url |-> BaseURL(c.overlays[Min(badO)].source)]
      ELSE [ok |-> TRUE, url |-> <<>>]

\* Execute, allSources
AllSources(c) == c.sources \o [ i \in 1..Len(c.overlays) |-> c.overlays[i].source ]

\* the iteration orders `range i.adapters` can take
AdapterOrders == { <<"cursor", "claude">>, <<"claude", "cursor">> }

\* the files of the enabled adapters in the order the adapter loop visits them
RECURSIVE Jobs(_, _, _)
Jobs(order, c, tree) ==
  IF order = <<>> THEN <<>>
  ELSE LET n  == Head(order)
           fs == IF isAdapterEnabled(c, n) THEN DiscoverFiles(n, tree) ELSE <<>>
       IN  [ i \in 1..Len(fs) |-> [adapter |-> n, file |-> fs[i]] ] \o Jobs(Tail(order), c, tree)


\* the output paths the source loop of Execute claims for the given sources,
\* in loop order, with the cursor adapter alone enabled
RECURSIVE ClaimedPaths(_, _)
ClaimedPaths(sources, c) ==
  IF sources = <<>> THEN <<>>
  ELSE LET r    == CloneOrUpdate(BaseURL(Head(sources)), RefOf(Head(sources)))
           jobs == Jobs(<<"cursor", "claude">>, c, r.tree)
       IN  [ i \in 1..Len(jobs) |->
               GetOutputPath(jobs[i].adapter, jobs[i].file, getAdapterConfig(c, jobs[i].adapter)) ]
           \o ClaimedPaths(Tail(sources), c)

\* Execute, "Track for conflict detection": the run stops at the first
\* output path that an earlier file already claimed and reports that path
ReportedDuplicates(sources, c) ==
  LET ps  == ClaimedPaths(sources, c)
      dup == { j \in 1..Len(ps) : \E i \in 1..(j - 1) : ps[i] = ps[j] }
  IN  IF dup = {} THEN {} ELSE { ps[Min(dup)] }

\* every ordering of a list
Orderings(s) ==
  { [ i \in 1..Len(s) |-> s[p[i]] ] :
      p \in { q \in [1..Len(s) -> 1..Len(s)] : \A i, j \in 1..Len(s) : i # j => q[i] # q[j] } }

\* a conflict check that aborts only in strict mode
ConflictAbortsStrictOnly(o, claimed) == claimed /\ ~o.VerifyOnly /\ o.StrictMode

\* Execute, "Track for conflict detection": a claimed output path aborts
\* the run unless it only verifies
ConflictAborts(o, claimed) == claimed /\ ~o.VerifyOnly

\* an orphan search that returns every old path of the source
findOrphanedFilesAll(oldFiles, newFiles) == [ i \in 1..Len(oldFiles) |-> oldFiles[i].path ]

\* Installer.findOrphanedFiles
findOrphanedFiles(oldFiles, newFiles) ==
  LET newPaths == { newFiles[i].path : i \in 1..Len(newFiles) }
      orphaned == SelectSeq(oldFiles, LAMBDA f : f.path \notin newPaths)
  IN  [ i \in 1..Len(orphaned) |-> orphaned[i].path ]


\* an orphan cleanup that also runs in verify mode
OrphansOfAlways(o, old, url, newFiles) ==
  IF url \in DOMAIN old THEN findOrphanedFiles(old[url], newFiles) ELSE <<>>

\* Execute, "Clean up orphaned files if this source was previously installed"
OrphansOf(o, old, url, newFiles) ==
  IF url \in DOMAIN old /\ ~o.VerifyOnly THEN findOrphanedFiles(old[url], newFiles) ELSE <<>>

\* Execute, "Check for conflicts": the post-write scan of the base output
\* directory of every enabled adapter
ScanIssues(c, d) ==
  UNION { ScanDirectory(d, GetBaseOutputDir(n, getAdapterConfig(c, n))) :
            n \in { m \in AdapterNames : isAdapterEnabled(c, m) } }

\* Execute: the scan aborts the run only in strict mode
ScanAborts(o, issues) == issues # {} /\ o.StrictMode

\* Execute, "Update .gitignore": patterns of the enabled adapters in loop order
RECURSIVE IgnorePatterns(_, _)
IgnorePatterns(order, c) ==
  IF order = <<>> THEN <<>>
  ELSE (IF isAdapterEnabled(c, Head(order))
        THEN GetGitignorePatterns(Head(order), getAdapterConfig(c, Head(order)))
        ELSE <<>>) \o IgnorePatterns(Tail(order), c)

\* a run that goes on to the lock although the ignore update failed
AfterIgnoreAlways(ok) == "lock"

\* Execute: a failed ignore update returns before the lock is written
AfterIgnore(ok) == IF ok THEN "lock" ELSE "done"

\* os.WriteFile / os.Remove on the output area
WriteFile(d, path, bytes) == [ q \in DOMAIN d \cup {path} |-> IF q = path THEN bytes ELSE d[q] ]

RemoveFile(d, path) ==
  IF DOMAIN d \ {path} = {} THEN <<>> ELSE [ q \in DOMAIN d \ {path} |-> d[q] ]

\* os.Remove of every orphan in turn
RECURSIVE RemoveAll(_, _)
RemoveAll(d, paths) ==
  IF paths = <<>> THEN d ELSE RemoveAll(RemoveFile(d, Head(paths)), Tail(paths))

\* a write that leaves an existing output file alone
WriteOutputIfAbsent(d, path, bytes) ==
  IF path \in DOMAIN d THEN d ELSE WriteFile(d, path, bytes)

\* Execute, "Write file": MkdirAll of the parent and os.WriteFile
WriteOutput(d, path, bytes) == WriteFile(d, path, bytes)

\* a file the user may drop below the cursor output directory
NestedPath == <<".cursor/rules/_active", "/", "sub", "/", "p.md">>

Tracked(l, p) == l.present /\ p \in DOMAIN GetFileHashes(l)

\* the tracked files whose bytes on d differ from the recorded hash
Modified(l, d) ==
  { p \in DOMAIN d : Tracked(l, p) /\ HashBytes(d[p]) # GetFileHashes(l)[p] }

\* the lock l records exactly the sources and refs of configuration c
Unchanged(l, c) ==
  /\ l.present
  /\ { <<l.sources[i].url, l.sources[i].ref>> : i \in 1..Len(l.sources) }
       = { <<BaseURL(AllSources(c)[i]), RefOf(AllSources(c)[i])>> : i \in 1..Len(AllSources(c)) }

\* ------------------------------------------- commands (internal/cmd)
\* the repository of UrlB in the path form the add command accepts
UrlBPath == <<"github.com", "/", "acme", "/", "b">>

\* no command is in progress
NoCmd == [name |-> "none", ci |-> FALSE]

\* what happens to the lock file under remove: read and rewritten, Read
\* fails, or Write fails
LockIO == {"ok", "unreadable", "unwritable"}

\* a Promptsfile that leaves the adapters to the loader's default
CliFile(sources, overlays) ==
  [sources |-> sources, overlays |-> overlays, cursor |-> FALSE, claude |-> FALSE,
   prefix |-> "acme"]

\* Promptsfiles the commands are run on: pinned and unpinned sources, an
\* untrusted source, a repository listed twice, and an overlay that names
\* the repository of a flat source
CliFiles ==
  { CliFile(<<>>, <<>>),
    CliFile(<< WithRef(UrlA, "v1") >>, <<>>),
    CliFile(<< WithRef(UrlA, "v1"), WithRef(UrlB, "main") >>, <<>>),
    CliFile(<< WithRef(UrlA, "main"), WithRef(UrlB, "v1") >>, <<>>),
    CliFile(<< WithRef(UrlA, "v1"), WithRef(UrlX, "v1") >>, <<>>),
    CliFile(<< WithRef(UrlA, "v1"), WithRef(UrlA, "v2") >>, <<>>),
    CliFile(<< WithRef(UrlA, "v2") >>, << [scope |-> "org", source |-> WithRef(UrlA, "v1")] >>) }

\* the source arguments given to add
AddArgs ==
  { WithRef(UrlA, "v2"), WithRef(UrlB, "v1"), WithRef(UrlBPath, "v2"), WithRef(UrlX, "v1") }

\* the source arguments given to update and remove: with and without a ref
SourceArgs ==
  { UrlA, WithRef(UrlB, "v1"), WithRef(UrlBPath, "v2"), WithRef(UrlX, "v1") }

\* the arguments given to update: none, one source, or two of which the
\* second is the repository of UrlA
UpdateArgLists ==
  {<<>>} \cup { <<t>> : t \in SourceArgs }
         \cup { <<WithRef(UrlX, "v1"), UrlA>>, <<WithRef(UrlB, "v1"), UrlA>> }


\* a pin test that takes every source with a ref as pinned
isPinnedSourceAnyRef(source) == Len(Split(source, "#")) >= 2

\* update.isPinnedSource
isPinnedSource(source) ==
  LET parts == Split(source, "#") IN
  IF Len(parts) < 2 THEN FALSE
  ELSE parts[2] \notin { <<"main">>, <<"master">>, <<"develop">>, <<"dev">> }

\* update.matchesSourceURL, remove.matchesSource
matchesSourceURL(source, target) == Split(source, "#")[1] = Split(target, "#")[1]

Planned(sources) == [ok |-> TRUE, err |-> "", source |-> <<>>, sources |-> sources]

NotPlanned(err, source) == [ok |-> FALSE, err |-> err, source |-> source, sources |-> <<>>]

\* determineSourcesToUpdate, "Update specific sources": the first source
\* that matches each argument
RECURSIVE UpdateSpecific(_, _, _)
UpdateSpecific(c, args, force) ==
  IF args = <<>> THEN Planned(<<>>)
  ELSE LET m == { i \in 1..Len(c.sources) : matchesSourceURL(c.sources[i], Head(args)) } IN
       IF m = {} THEN NotPlanned("not-found", Head(args))
       ELSE LET source == c.sources[Min(m)] IN
            IF ~force /\ isPinnedSource(source) THEN NotPlanned("pinned", source)
            ELSE LET rest == UpdateSpecific(c, Tail(args), force) IN
                 IF rest.ok THEN Planned(<<source>> \o rest.sources) ELSE rest

\* a selection that lets a named pinned source through without --force
determineSourcesIgnoringPins(c, args, force) ==
  IF args = <<>>
  THEN Planned(SelectSeq(c.sources, LAMBDA x : force \/ ~isPinnedSource(x)))
  ELSE UpdateSpecific(c, args, TRUE)

\* update.determineSourcesToUpdate
determineSourcesToUpdate(c, args, force) ==
  IF args = <<>>
  THEN Planned(SelectSeq(c.sources, LAMBDA x : force \/ ~isPinnedSource(x)))
  ELSE UpdateSpecific(c, args, force)

\* add.validateSourceURL
validateSourceURL(source) ==
  LET url == Split(source, "#")[1] IN
  /\ source # <<>>
  /\ \E i \in 1..Len(url) : url[i] = "/"
  /\ ~HasSuffix(url, <<"/">>)
  /\ ~HasPrefix(url, <<"http://">>)
  /\ ~HasPrefix(url, <<"https://">>)

\* a duplicate check that accepts every source
checkDuplicateNever(c, source) == TRUE

\* add.checkDuplicate: TRUE when the source may be added
checkDuplicate(c, source) ==
  /\ \A i \in 1..Len(c.sources) : BaseURL(c.sources[i]) # BaseURL(source)
  /\ \A i \in 1..Len(c.overlays) : c.overlays[i].source # source

\* a lookup that finds every target among the sources
removeSourceAlwaysFound(sources, target) ==
  [found |-> TRUE,
   sources |-> SelectSeq(sources, LAMBDA x : BaseURL(x) # BaseURL(target))]

\* init: the markers of the block that init writes
managedBegin == <<"# BEGIN prompt-sync managed">>

managedEnd == <<"# END prompt-sync managed">>

\* init.createPromptsfile: the template holds comments only
PromptsfileTemplate ==
  [sources |-> <<>>, overlays |-> <<>>, cursor |-> FALSE, claude |-> FALSE, prefix |-> ""]

\* init.ensureGitignoreBlock: append a block unless the file holds the
\* begin marker of init
ensureGitignoreBlock(f) ==
  IF f.present /\ \E i \in 1..Len(f.lines) : f.lines[i] = managedBegin
  THEN f
  ELSE [present |-> TRUE,
        lines |-> f.lines \o <<managedBegin, <<".cursor/rules", "/">>, managedEnd>>]

\* remove.removeSource
removeSource(sources, target) ==
  [found |-> \E i \in 1..Len(sources) : BaseURL(sources[i]) = BaseURL(target),
   sources |-> SelectSeq(sources, LAMBDA x : BaseURL(x) # BaseURL(target))]

\* remove.cleanupRenderedFiles: the files of the first lock source with the
\* base url of the removed source
cleanupRenderedFiles(d, source, l) ==
  LET m == { i \in 1..Len(l.sources) : BaseURL(l.sources[i].url) = BaseURL(source) } IN
  IF m = {} THEN d
  ELSE LET files == l.sources[Min(m)].files IN
       RemoveAll(d, [ i \in 1..Len(files) |-> files[i].path ])

\* a lock update that keeps the entry of the removed source
updateLockFileKeepAll(l, source) == LockWrite(l.sources)

\* remove.updateLockFile
updateLockFile(l, source) ==
  LockWrite(SelectSeq(l.sources, LAMBDA x : BaseURL(x.url) # BaseURL(source)))

\* ================================================================= actions
InitWith(files) ==
  /\ promptsfile \in files
  /\ disk = <<>>
  /\ lock = NoLock
  /\ ignore = NoIgnore
  /\ touches = 0
  /\ touched = NoTouch
  /\ since = "dirty"
  /\ pc = "idle"
  /\ opts = NoOpts
  /\ cfg = NoConfig
  /\ oldFilesBySource = <<>>
  /\ allSources = <<>>
  /\ si = 0
  /\ cur = NoFetch
  /\ todo = <<>>
  /\ lockFiles = <<>>
  /\ lockSources = <<>>
  /\ renderedFiles = <<>>
  /\ result = NoResult
  /\ fetched = {}
  /\ written = {}
  /\ warnings = {}
  /\ snap = NoSnap
  /\ cmd = NoCmd
  /\ remote = RemoteInit
  /\ cache = NoRepo
  /\ seen = NoSeen
  /\ last = NoCall

\* a workspace with a Promptsfile and nothing installed
Init == InitWith(Promptsfiles)

\* ---- the user, between runs
\* the user points source i of the Promptsfile at another ref
SwitchRef(i, r) ==
  /\ pc = "idle"
  /\ i \in 1..Len(promptsfile.sources)
  /\ r \in RefsOf(BaseURL(promptsfile.sources[i]))
  /\ promptsfile.sources[i] # WithRef(BaseURL(promptsfile.sources[i]), r)
  /\ promptsfile' = [promptsfile EXCEPT !.sources[i] = WithRef(BaseURL(promptsfile.sources[i]), r)]
  /\ since' = "dirty"
  /\ UNCHANGED <<workspace, touches, touched, pc, opts, locals, result, logs, snap>>
  /\ UNCHANGED <<cmd, fetcher>>

\* the user changes the bytes of a tracked output file
Tamper(p) ==
  /\ pc = "idle"
  /\ touches < MaxTouches
  /\ p \in DOMAIN disk
  /\ Tracked(lock, p)
  /\ disk[p] # "tampered"
  /\ disk' = WriteFile(disk, p, "tampered")
  /\ touches' = touches + 1
  /\ touched' = [op |-> "tamper", path |-> p]
  /\ since' = "dirty"
  /\ UNCHANGED <<promptsfile, lock, ignore, pc, opts, locals, result, logs, snap>>
  /\ UNCHANGED <<cmd, fetcher>>

\* the user deletes a tracked output file
Delete(p) ==
  /\ pc = "idle"
  /\ touches < MaxTouches
  /\ p \in DOMAIN disk
  /\ Tracked(lock, p)
  /\ disk' = RemoveFile(disk, p)
  /\ touches' = touches + 1
  /\ touched' = [op |-> "delete", path |-> p]
  /\ since' = "dirty"
  /\ UNCHANGED <<promptsfile, lock, ignore, pc, opts, locals, result, logs, snap>>
  /\ UNCHANGED <<cmd, fetcher>>

\* the user creates a file in a subdirectory of the cursor output directory
CreateNested ==
  /\ pc = "idle"
  /\ touches < MaxTouches
  /\ NestedPath \notin DOMAIN disk
  /\ disk' = WriteFile(disk, NestedPath, "user")
  /\ touches' = touches + 1
  /\ touched' = [op |-> "create", path |-> NestedPath]
  /\ since' = "dirty"
  /\ UNCHANGED <<promptsfile, lock, ignore, pc, opts, locals, result, logs, snap>>
  /\ UNCHANGED <<cmd, fetcher>>

\* ---- Installer.Execute, step by step
\* load the configuration, read the prior lock, validate the sources
Start(o) ==
  /\ opts' = o
  /\ cfg' = Load(promptsfile)
  /\ snap' = [disk |-> disk, lock |-> lock, ignore |-> ignore, since |-> since]
  /\ touched' = IF o.VerifyOnly THEN touched ELSE NoTouch
  /\ IF o.VerifyOnly /\ ~LockExists(lock)
     THEN /\ result' = Res("lock-missing", <<>>, {})
          /\ pc' = "done"
          /\ UNCHANGED <<oldFilesBySource, allSources, si>>
     ELSE LET v == ValidateSources(Load(promptsfile), o.AllowUnknown) IN
          /\ oldFilesBySource' = OldFilesBySource(lock)
          /\ IF ~v.ok
             THEN /\ result' = Res("untrusted", <<v.url>>, {})
                  /\ pc' = "done"
                  /\ UNCHANGED <<allSources, si>>
             ELSE /\ result' = NoResult
                  /\ allSources' = AllSources(Load(promptsfile))
                  /\ si' = 1
                  /\ pc' = IF AllSources(Load(promptsfile)) = <<>> THEN "scan" ELSE "fetch"
  /\ UNCHANGED <<promptsfile, workspace, touches, since, cur, todo, lockFiles, lockSources,
                 renderedFiles, logs>>
  /\ UNCHANGED <<cmd, fetcher>>

\* workflow.New(opts).Execute() called on a workspace at rest
Begin(o) == pc = "idle" /\ Start(o)

\* "Clone or update the repository" for the next source, then discovery
Fetch ==
  /\ pc = "fetch"
  /\ LET url == BaseURL(allSources[si])
         ref == RefOf(allSources[si])
         r   == CloneOrUpdate(url, ref)
     IN  /\ fetched' = fetched \cup {url}
         /\ IF ~r.ok
            THEN /\ result' = Res("fetch", <<url>>, {})
                 /\ pc' = "done"
                 /\ UNCHANGED <<cur, todo, lockFiles>>
            ELSE \E order \in AdapterOrders :
                 /\ cur' = [url |-> url, ref |-> ref, commit |-> r.commit, tree |-> r.tree]
                 /\ todo' = Jobs(order, cfg, r.tree)
                 /\ lockFiles' = <<>>
                 /\ pc' = IF Jobs(order, cfg, r.tree) = <<>> THEN "cleanup" ELSE "render"
                 /\ UNCHANGED result
  /\ UNCHANGED <<promptsfile, workspace, user, opts, cfg, oldFilesBySource, allSources,
                 si, lockSources, renderedFiles, written, warnings, snap>>
  /\ UNCHANGED <<cmd, fetcher>>

\* the body of "for _, file := range files": conflict check, render, write, hash
Render ==
  /\ pc = "render"
  /\ LET job  == Head(todo)
         acfg == getAdapterConfig(cfg, job.adapter)
         outputPath == GetOutputPath(job.adapter, job.file, acfg)
     IN  IF ConflictAborts(opts, outputPath \in DOMAIN renderedFiles)
         THEN /\ result' = Res("conflict", <<renderedFiles[outputPath], cur.url>>, {outputPath})
              /\ pc' = "done"
              /\ UNCHANGED <<disk, todo, lockFiles, renderedFiles, written>>
         ELSE \E ioOk \in (IF opts.VerifyOnly THEN {TRUE} ELSE BOOLEAN) :
              /\ renderedFiles' = WriteFile(renderedFiles, outputPath, cur.url)
              /\ IF ~ioOk
                 THEN /\ result' = Res("io", <<cur.url>>, {outputPath})
                      /\ pc' = "done"
                      /\ UNCHANGED <<disk, todo, lockFiles, written>>
                 ELSE LET d == IF opts.VerifyOnly THEN disk
                               ELSE WriteOutput(disk, outputPath,
                                      RenderFile(job.adapter, job.file, ReadSource(cur.tree, job.file), acfg))
                          h == CalculateFileHash(d, outputPath)
                      IN  /\ disk' = d
                          /\ written' = IF opts.VerifyOnly THEN written ELSE written \cup {outputPath}
                          /\ lockFiles' = Append(lockFiles,
                                 [path |-> outputPath, hash |-> IF h.ok THEN h.hash ELSE <<"missing">>])
                          /\ todo' = Tail(todo)
                          /\ pc' = IF Tail(todo) = <<>> THEN "cleanup" ELSE "render"
                          /\ UNCHANGED result
  /\ UNCHANGED <<promptsfile, lock, ignore, user, opts, cfg, oldFilesBySource, allSources,
                 si, cur, lockSources, fetched, warnings, snap>>
  /\ UNCHANGED <<cmd, fetcher>>

\* orphan cleanup of the source, then its lock entry
Cleanup ==
  /\ pc = "cleanup"
  /\ disk' = RemoveAll(disk, OrphansOf(opts, oldFilesBySource, cur.url, lockFiles))
  /\ lockSources' = Append(lockSources,
        [url |-> cur.url, ref |-> cur.ref, commit |-> cur.commit, files |-> lockFiles])
  /\ si' = si + 1
  /\ cur' = NoFetch
  /\ lockFiles' = <<>>
  /\ pc' = IF si < Len(allSources) THEN "fetch" ELSE "scan"
  /\ UNCHANGED <<promptsfile, lock, ignore, user, opts, cfg, oldFilesBySource, allSources,
                 todo, renderedFiles, result, logs, snap>>
  /\ UNCHANGED <<cmd, fetcher>>

\* post-write scan of the adapters' output directories: the first adapter of
\* the loop whose directory holds duplicates ends a strict run
Scan ==
  /\ pc = "scan"
  /\ IF ScanAborts(opts, ScanIssues(cfg, disk))
     THEN /\ \E n \in { m \in AdapterNames : isAdapterEnabled(cfg, m) } :
               LET issues == ScanDirectory(disk, GetBaseOutputDir(n, getAdapterConfig(cfg, n))) IN
               /\ issues # {}
               /\ result' = Res("duplicates", <<>>, { x.path : x \in issues })
          /\ pc' = "done"
     ELSE /\ pc' = IF opts.VerifyOnly THEN "drift" ELSE "ignore"
          /\ UNCHANGED result
  /\ UNCHANGED <<promptsfile, workspace, user, opts, locals, logs, snap>>
  /\ UNCHANGED <<cmd, fetcher>>

\* verify mode: drift check against the lock on disk
Drift ==
  /\ pc = "drift"
  /\ LET issues == CheckDrift(disk, GetFileHashes(lock)) IN
     result' = IF issues # {} THEN Res("drift", <<>>, { x.path : x \in issues })
               ELSE Res("ok", <<>>, {})
  /\ pc' = "done"
  /\ UNCHANGED <<promptsfile, workspace, user, opts, locals, logs, snap>>
  /\ UNCHANGED <<cmd, fetcher>>

\* "Update .gitignore"
UpdateIgnore ==
  /\ pc = "ignore"
  /\ \E order \in AdapterOrders, ok \in BOOLEAN :
       /\ ignore' = IF ok THEN IgnoreUpdate(ignore, IgnorePatterns(order, cfg)) ELSE ignore
       /\ result' = IF ok THEN result ELSE Res("ignore", <<>>, {})
       /\ pc' = AfterIgnore(ok)
  /\ UNCHANGED <<promptsfile, disk, lock, user, opts, locals, logs, snap>>
  /\ UNCHANGED <<cmd, fetcher>>

\* "Write lock file"
WriteLock ==
  /\ pc = "lock"
  /\ lock' = LockWrite(lockSources)
  /\ result' = IF result.kind = "none" THEN Res("ok", <<>>, {}) ELSE result
  /\ pc' = "done"
  /\ UNCHANGED <<promptsfile, disk, ignore, user, opts, locals, logs, snap>>
  /\ UNCHANGED <<cmd, fetcher>>

\* Execute has returned; the process exits
Return ==
  /\ pc = "done"
  /\ pc' = "idle"
  /\ since' = IF cmd # NoCmd THEN "dirty"
              ELSE IF opts.VerifyOnly THEN since
              ELSE IF result.kind # "ok" THEN "dirty"
              ELSE IF snap.since = "interrupted" THEN "recovered"
              ELSE IF Unchanged(snap.lock, cfg) /\ Modified(snap.lock, snap.disk) # {}
                   THEN "restored" ELSE "installed"
  /\ opts' = NoOpts
  /\ cfg' = NoConfig
  /\ oldFilesBySource' = <<>>
  /\ allSources' = <<>>
  /\ si' = 0
  /\ cur' = NoFetch
  /\ todo' = <<>>
  /\ lockFiles' = <<>>
  /\ lockSources' = <<>>
  /\ renderedFiles' = <<>>
  /\ result' = NoResult
  /\ fetched' = {}
  /\ written' = {}
  /\ warnings' = {}
  /\ snap' = NoSnap
  /\ UNCHANGED <<promptsfile, workspace, touches, touched>>
  /\ cmd' = NoCmd
  /\ UNCHANGED fetcher

\* the install process is killed between two steps of Execute: after any
\* prefix of the file writes, after any prefix of a source's orphan
\* deletions, before or after the ignore update, before the lock write
Interrupt ==
  /\ pc \in {"fetch", "render", "cleanup", "scan", "ignore", "lock"}
  /\ ~opts.VerifyOnly
  /\ LET orphans == IF pc = "cleanup"
                    THEN OrphansOf(opts, oldFilesBySource, cur.url, lockFiles)
                    ELSE <<>>
     IN  \E k \in 0..Len(orphans) : disk' = RemoveAll(disk, SubSeq(orphans, 1, k))
  /\ pc' = "idle"
  /\ since' = "interrupted"
  /\ opts' = NoOpts
  /\ cfg' = NoConfig
  /\ oldFilesBySource' = <<>>
  /\ allSources' = <<>>
  /\ si' = 0
  /\ cur' = NoFetch
  /\ todo' = <<>>
  /\ lockFiles' = <<>>
  /\ lockSources' = <<>>
  /\ renderedFiles' = <<>>
  /\ result' = NoResult
  /\ fetched' = {}
  /\ written' = {}
  /\ warnings' = {}
  /\ snap' = NoSnap
  /\ UNCHANGED <<promptsfile, lock, ignore, touches, touched>>
  /\ cmd' = NoCmd
  /\ UNCHANGED fetcher

\* ---- the commands of the CLI
Invoke(name, ci, allowUnknown, args, force, planned) ==
  [name |-> name, ci |-> ci, allow |-> allowUnknown, args |-> args, force |-> force,
   planned |-> planned, io |-> "ok",
   was |-> [promptsfile |-> promptsfile, disk |-> disk, lock |-> lock, ignore |-> ignore]]

\* install.runInstall: CI=true or --yes turns strict mode on
RunInstall(ci, strict, yes, allowUnknown) ==
  /\ pc = "idle"
  /\ cmd' = Invoke("install", ci, allowUnknown, <<>>, FALSE, <<>>)
  /\ opts' = [StrictMode |-> strict \/ ci \/ yes, VerifyOnly |-> FALSE, AllowUnknown |-> allowUnknown]
  /\ pc' = "exec"
  /\ since' = "dirty"
  /\ UNCHANGED <<promptsfile, workspace, touches, touched, locals, result, logs, snap, fetcher>>

\* install.runCIInstall: strict and --yes, then runInstall
RunCIInstall(ci, allowUnknown) ==
  /\ pc = "idle"
  /\ cmd' = Invoke("ci-install", ci, allowUnknown, <<>>, FALSE, <<>>)
  /\ opts' = [StrictMode |-> TRUE, VerifyOnly |-> FALSE, AllowUnknown |-> allowUnknown]
  /\ pc' = "exec"
  /\ since' = "dirty"
  /\ UNCHANGED <<promptsfile, workspace, touches, touched, locals, result, logs, snap, fetcher>>

\* add.runAdd
RunAdd(source, noInstall, allowUnknown, ci) ==
  /\ pc = "idle"
  /\ Len(promptsfile.sources) < MaxSources
  /\ cmd' = Invoke("add", ci, allowUnknown, <<source>>, FALSE, <<>>)
  /\ since' = "dirty"
  /\ LET c == Load(promptsfile)
         kind == IF ~validateSourceURL(source) THEN "invalid"
                 ELSE IF ~allowUnknown /\ ~IsTrusted(BaseURL(source)) THEN "untrusted"
                 ELSE IF ~checkDuplicate(c, source) THEN "exists"
                 ELSE "ok"
     IN  IF kind # "ok"
         THEN /\ result' = Res(kind, <<source>>, {})
              /\ pc' = "done"
              /\ UNCHANGED <<promptsfile, opts>>
         ELSE /\ promptsfile' = [c EXCEPT !.sources = Append(c.sources, source)]
              /\ IF noInstall
                 THEN /\ result' = Res("ok", <<>>, {})
                      /\ pc' = "done"
                      /\ UNCHANGED opts
                 ELSE /\ opts' = [StrictMode |-> FALSE, VerifyOnly |-> FALSE,
                                  AllowUnknown |-> allowUnknown]
                      /\ pc' = "exec"
                      /\ UNCHANGED result
  /\ UNCHANGED <<workspace, touches, touched, locals, logs, snap, fetcher>>

\* update.runUpdate: the update check marks every planned source as
\* updatable and the Promptsfile rewrite changes nothing; the updates are
\* applied by a run of the installer
RunUpdate(args, force, dryRun, strict, allowUnknown, ci) ==
  /\ pc = "idle"
  /\ since' = "dirty"
  /\ LET plan == determineSourcesToUpdate(Load(promptsfile), args, force) IN
     /\ cmd' = Invoke("update", ci, allowUnknown, args, force,
                      IF LockExists(lock) THEN plan.sources ELSE <<>>)
     /\ IF ~LockExists(lock)
        THEN /\ result' = Res("lock-missing", <<>>, {})
             /\ pc' = "done"
             /\ UNCHANGED opts
        ELSE IF ~plan.ok
        THEN /\ result' = Res(plan.err, <<plan.source>>, {})
             /\ pc' = "done"
             /\ UNCHANGED opts
        ELSE IF plan.sources = <<>> \/ dryRun
        THEN /\ result' = Res("ok", <<>>, {})
             /\ pc' = "done"
             /\ UNCHANGED opts
        ELSE /\ opts' = [StrictMode |-> strict \/ ci, VerifyOnly |-> FALSE,
                         AllowUnknown |-> allowUnknown]
             /\ pc' = "exec"
             /\ UNCHANGED result
  /\ UNCHANGED <<promptsfile, workspace, touches, touched, locals, logs, snap, fetcher>>

\* remove.runRemove: the rendered files are cleaned up and the lock is
\* rewritten only when the lock could be read; a failed lock write is a
\* warning; the Promptsfile is written last, and a failure to write it is
\* the command's error. A lock file that cannot be read or written counts
\* as a touch of the workspace
RunRemove(source, lockIO, writeOk) ==
  /\ pc = "idle"
  /\ (LockExists(lock) /\ lockIO # "ok") => touches < MaxTouches
  /\ touches' = IF LockExists(lock) /\ lockIO # "ok" THEN touches + 1 ELSE touches
  /\ since' = "dirty"
  /\ cmd' = [Invoke("remove", FALSE, FALSE, <<source>>, FALSE, <<>>) EXCEPT
               !.io = IF LockExists(lock) THEN lockIO ELSE "ok"]
  /\ pc' = "done"
  /\ LET c == Load(promptsfile)
         r == removeSource(c.sources, source)
         readOk == LockExists(lock) /\ lockIO # "unreadable"
     IN  IF ~r.found
         THEN /\ result' = IF \E i \in 1..Len(c.overlays) : matchesSourceURL(c.overlays[i].source, source)
                           THEN Res("overlay", <<source>>, {})
                           ELSE Res("not-found", <<source>>, {})
              /\ UNCHANGED <<promptsfile, disk, lock>>
         ELSE /\ disk' = IF readOk THEN cleanupRenderedFiles(disk, source, lock) ELSE disk
              /\ lock' = IF readOk /\ lockIO = "ok" THEN updateLockFile(lock, source) ELSE lock
              /\ promptsfile' = IF writeOk THEN [c EXCEPT !.sources = r.sources] ELSE promptsfile
              /\ result' = IF writeOk THEN Res("ok", <<>>, {}) ELSE Res("write", <<source>>, {})
  /\ warnings' = IF removeSource(Load(promptsfile).sources, source).found
                    /\ LockExists(lock) /\ lockIO = "unwritable"
                 THEN {"failed to update lock file"} ELSE {}
  /\ UNCHANGED <<ignore, touched, opts, locals, fetched, written, snap, fetcher>>

\* init.runInit in a project that has a Promptsfile: without --force the
\* command fails before it touches the ignore file
RunInit(force) ==
  /\ pc = "idle"
  /\ cmd' = Invoke("init", FALSE, FALSE, <<>>, force, <<>>)
  /\ since' = "dirty"
  /\ pc' = "done"
  /\ IF ~force
     THEN /\ result' = Res("exists", <<>>, {})
          /\ UNCHANGED <<promptsfile, ignore>>
     ELSE /\ promptsfile' = PromptsfileTemplate
          /\ ignore' = ensureGitignoreBlock(ignore)
          /\ result' = Res("ok", <<>>, {})
  /\ UNCHANGED <<disk, lock, touches, touched, opts, locals, logs, snap, fetcher>>


\* a caller asks security.EnsureTrusted about repoURL under a configuration
\* with the given sources
CallEnsureTrusted(repoURL, sources, allowUnknown) ==
  /\ pc = "idle"
  /\ cmd' = [name |-> "EnsureTrusted", ci |-> FALSE, allow |-> allowUnknown,
             args |-> <<repoURL>>, sources |-> sources]
  /\ result' = IF EnsureTrusted(repoURL, sources, allowUnknown)
               THEN Res("ok", <<>>, {})
               ELSE Res("untrusted", <<repoURL>>, {})
  /\ pc' = "done"
  /\ since' = "dirty"
  /\ UNCHANGED <<promptsfile, workspace, touches, touched, opts, locals, logs, snap, fetcher>>

\* the command runs workflow.New(opts).Execute()
Exec == pc = "exec" /\ Start(opts)

\* ---- the Fetcher, called on the cache of one repository
\* everything but the fetcher's repository, cache and call records
pipeline == <<promptsfile, disk, lock, ignore, touches, touched, since, pc, opts, cfg,
              oldFilesBySource, allSources, si, cur, todo, lockFiles, lockSources,
              renderedFiles, result, fetched, written, warnings, snap, cmd>>

\* the call record of a Fetcher method
Called(op, ref, offline, r) ==
  [op |-> op, ref |-> ref, offline |-> offline, cached |-> cache.cloned, ok |-> r.ok,
   err |-> r.err, commit |-> IF r.ok THEN r.repo.head ELSE <<>>, net |-> r.net,
   prev |-> IF ref \in DOMAIN seen THEN [seen[ref] EXCEPT !.online = @ \/ ~offline]
            ELSE NoPrev]

\* what the calls since the last successful CloneOrUpdate of each ref were
Since(ref, offline) ==
  [ r \in DOMAIN seen |-> [seen[r] EXCEPT !.online = @ \/ ~offline,
                                         !.between = @ \/ r # ref] ]

\* Fetcher.Clone(url, ref) by a fetcher built with the given offline option
CallClone(ref, offline) ==
  /\ pc = "idle"
  /\ LET r == Clone(cache, remote, ref, offline) IN
     /\ cache' = r.repo
     /\ last' = Called("Clone", ref, offline, r)
  /\ seen' = Since(ref, offline)
  /\ UNCHANGED <<remote, pipeline>>

\* Fetcher.Update(url, ref)
CallUpdate(ref, offline) ==
  /\ pc = "idle"
  /\ LET r == Update(cache, remote, ref, offline) IN
     /\ cache' = r.repo
     /\ last' = Called("Update", ref, offline, r)
  /\ seen' = Since(ref, offline)
  /\ UNCHANGED <<remote, pipeline>>

\* Fetcher.CloneOrUpdate(url, ref)
CallCloneOrUpdate(ref, offline) ==
  /\ pc = "idle"
  /\ LET r == GitCloneOrUpdate(cache, remote, ref, offline) IN
     /\ cache' = r.repo
     /\ last' = Called("CloneOrUpdate", ref, offline, r)
     /\ seen' = IF r.ok
                THEN [ x \in DOMAIN seen \cup {ref} |->
                        IF x = ref
                        THEN [known |-> TRUE, commit |-> r.repo.head, online |-> FALSE,
                              between |-> FALSE]
                        ELSE Since(ref, offline)[x] ]
                ELSE Since(ref, offline)
  /\ UNCHANGED <<remote, pipeline>>

\* the call record of a Fetcher method, with the cache and the remote the
\* call found
CalledOn(op, ref, offline, r) ==
  [op |-> op, ref |-> ref, offline |-> offline, cached |-> cache.cloned, ok |-> r.ok,
   err |-> r.err, commit |-> IF r.ok THEN r.repo.head ELSE <<>>, net |-> r.net,
   before |-> cache, rem |-> remote]

\* Fetcher.Clone(url, ref) for a ref of any form
ResolveClone(ref, offline) ==
  /\ pc = "idle"
  /\ LET r == Clone(cache, remote, ref, offline) IN
     /\ cache' = r.repo
     /\ last' = CalledOn("Clone", ref, offline, r)
  /\ UNCHANGED <<seen, remote, pipeline>>

\* Fetcher.CloneOrUpdate(url, ref) for a ref of any form
ResolveCloneOrUpdate(ref, offline) ==
  /\ pc = "idle"
  /\ LET r == GitCloneOrUpdate(cache, remote, ref, offline) IN
     /\ cache' = r.repo
     /\ last' = CalledOn("CloneOrUpdate", ref, offline, r)
  /\ UNCHANGED <<seen, remote, pipeline>>

\* somebody pushes to the remote: a branch advances, a tag is created or
\* moved
RemoteMoves(ref) ==
  /\ pc = "idle"
  /\ remote[ref] < MaxMoves + 1
  /\ Cardinality({ <<r, n>> \in GitRefs \X Gens : RemoteInit[r] < n /\ n <= remote[r] }) < MaxMoves
  /\ remote' = [remote EXCEPT ![ref] = @ + 1]
  /\ UNCHANGED <<cache, seen, last, pipeline>>

Next ==
  \/ \E i \in 1..MaxSources, r \in Refs : SwitchRef(i, r)
  \/ \E p \in DOMAIN disk : Tamper(p)
  \/ \E p \in DOMAIN disk : Delete(p)
  \/ CreateNested
  \/ \E o \in Options : Begin(o)
  \/ Fetch
  \/ Render
  \/ Cleanup
  \/ Scan
  \/ Drift
  \/ UpdateIgnore
  \/ WriteLock
  \/ Return

Spec == Init /\ [][Next]_vars

\* runs of Execute that may be killed between steps; the user edits the
\* Promptsfile between runs but leaves the rendered files alone
NextInterrupt ==
  \/ \E i \in 1..MaxSources, r \in Refs : SwitchRef(i, r)
  \/ \E o \in Options : Begin(o)
  \/ Fetch
  \/ Render
  \/ Cleanup
  \/ Scan
  \/ Drift
  \/ UpdateIgnore
  \/ WriteLock
  \/ Return
  \/ Interrupt

SpecInterrupt == Init /\ [][NextInterrupt]_vars

\* the commands that run the pipeline (install, ci-install, add, update),
\* one after another on a workspace
InitCLI == InitWith(CliFiles)

NextCLI ==
  \/ \E ci, strict, yes, allowUnknown \in BOOLEAN : RunInstall(ci, strict, yes, allowUnknown)
  \/ \E ci, allowUnknown \in BOOLEAN : RunCIInstall(ci, allowUnknown)
  \/ \E source \in AddArgs, noInstall, allowUnknown, ci \in BOOLEAN :
       RunAdd(source, noInstall, allowUnknown, ci)
  \/ \E args \in UpdateArgLists,
        force, dryRun, strict, allowUnknown, ci \in BOOLEAN :
       RunUpdate(args, force, dryRun, strict, allowUnknown, ci)
  \/ Exec
  \/ Fetch
  \/ Render
  \/ Cleanup
  \/ Scan
  \/ UpdateIgnore
  \/ WriteLock
  \/ Return

SpecCLI == InitCLI /\ [][NextCLI]_vars

\* installs and removes, with a lock file that may fail to be read or
\* rewritten
NextRemove ==
  \/ \E allowUnknown \in BOOLEAN : RunInstall(FALSE, FALSE, FALSE, allowUnknown)
  \/ \E source \in SourceArgs, lockIO \in LockIO, writeOk \in BOOLEAN :
       RunRemove(source, lockIO, writeOk)
  \/ Exec
  \/ Fetch
  \/ Render
  \/ Cleanup
  \/ Scan
  \/ UpdateIgnore
  \/ WriteLock
  \/ Return

SpecRemove == InitCLI /\ [][NextRemove]_vars

\* ---- init, add and install, one after another on a workspace
NextInit ==
  \/ \E force \in BOOLEAN : RunInit(force)
  \/ \E strict, allowUnknown \in BOOLEAN : RunInstall(FALSE, strict, FALSE, allowUnknown)
  \/ \E source \in AddArgs, noInstall \in BOOLEAN : RunAdd(source, noInstall, TRUE, FALSE)
  \/ Exec
  \/ Fetch
  \/ Render
  \/ Cleanup
  \/ Scan
  \/ UpdateIgnore
  \/ WriteLock
  \/ Return

SpecInit == InitCLI /\ [][NextInit]_vars

\* ---- the cache directory of a repository
\* strings.ReplaceAll of ":" and of "@" by "-", token by token
CleanName(name) ==
  [ i \in 1..Len(name) |->
      CASE name[i] \in {":", "@"} -> "-"
        [] name[i] = "git@" -> "git-"
        [] OTHER -> name[i] ]

\* hex.EncodeToString(sha256.Sum256(repoURL))[:12]: a digest that tells
\* any two urls of the model apart
HashPrefix(repoURL) == <<"sha256[:12]">> \o repoURL

\* fetcher.repoPath: the last two "/"-separated parts of the url without its
\* ".git" suffix, cleaned, then "-" and the digest of the url as given
repoPath(repoURL) ==
  LET parts == Split(TrimSuffix(repoURL, <<".git">>), "/")
      name  == IF Len(parts) >= 2
               THEN parts[Len(parts) - 1] \o <<"-">> \o parts[Len(parts)]
               ELSE TrimSuffix(repoURL, <<".git">>)
  IN  <<"CacheDir", "/">> \o CleanName(name) \o <<"-">> \o HashPrefix(repoURL)

\* ---- installs between which the user rewrites a source url
\* the repository of UrlA in https form
UrlAHttps == <<"https://", "github.com", "/", "acme", "/", "a">>

\* the forms in which the Promptsfiles of the model write a repository
UrlForms == {UrlA, UrlAHttps, UrlB, UrlBPath}

\* the user rewrites source i of the Promptsfile as another form u of the
\* same repository, at ref r
Rewrite(i, u, r) ==
  /\ pc = "idle"
  /\ i \in 1..Len(promptsfile.sources)
  /\ canonical(u) = canonical(BaseURL(promptsfile.sources[i]))
  /\ u # BaseURL(promptsfile.sources[i])
  /\ promptsfile' = [promptsfile EXCEPT !.sources[i] = WithRef(u, r)]
  /\ since' = "dirty"
  /\ UNCHANGED <<workspace, touches, touched, pc, opts, locals, result, logs, snap>>
  /\ UNCHANGED <<cmd, fetcher>>

InitRewrite ==
  InitWith({ CliFile(<< WithRef(UrlB, "v1") >>, <<>>),
             CliFile(<< WithRef(UrlA, "v1"), WithRef(UrlB, "v1") >>, <<>>),
             CliFile(<< WithRef(UrlAHttps, "v2") >>, <<>>) })

NextRewrite ==
  \/ \E o \in Options : Begin(o)
  \/ Fetch
  \/ Render
  \/ Cleanup
  \/ Scan
  \/ Drift
  \/ UpdateIgnore
  \/ WriteLock
  \/ Return
  \/ \E i \in 1..MaxSources, u \in UrlForms, r \in {"v1", "v2"} : Rewrite(i, u, r)

SpecRewrite == InitRewrite /\ [][NextRewrite]_vars


\* ---- installs between which the user reorders the sources
\* the user swaps sources i and i + 1 of the Promptsfile
Reorder(i) ==
  /\ pc = "idle"
  /\ i \in 1..(Len(promptsfile.sources) - 1)
  /\ promptsfile' = [promptsfile EXCEPT !.sources[i] = promptsfile.sources[i + 1],
                                        !.sources[i + 1] = promptsfile.sources[i]]
  /\ since' = "dirty"
  /\ UNCHANGED <<workspace, touches, touched, pc, opts, locals, result, logs, snap>>
  /\ UNCHANGED <<cmd, fetcher>>

\* two sources with one file each, p.md and q.md, alone and next to a source
\* that holds both
InitOrder ==
  InitWith({ CliFile(<< WithRef(UrlB, "v1"), WithRef(UrlA, "v1") >>, <<>>),
             CliFile(<< WithRef(UrlP, "v1"), WithRef(UrlB, "v1"), WithRef(UrlA, "v1") >>, <<>>) })

NextOrder ==
  \/ \E i \in 1..MaxSources : Reorder(i)
  \/ \E o \in Options : Begin(o)
  \/ Fetch
  \/ Render
  \/ Cleanup
  \/ Scan
  \/ Drift
  \/ UpdateIgnore
  \/ WriteLock
  \/ Return

SpecOrder == InitOrder /\ [][NextOrder]_vars


\* ---- update on sources with and without a ref
\* what follows the url of UrlA in the Promptsfiles of InitPin: nothing, a
\* branch name or a tag
PinSuffixes ==
  { <<>>, <<"#", "main">>, <<"#", "master">>, <<"#", "develop">>, <<"#", "dev">>, <<"#", "v1">> }

InitPin ==
  InitWith({ CliFile(<< UrlA \o s, WithRef(UrlB, "v1") >>, <<>>) : s \in PinSuffixes })

NextPin ==
  \/ RunInstall(FALSE, FALSE, FALSE, FALSE)
  \/ \E args \in { <<>>, <<UrlA>>, <<WithRef(UrlB, "v1")>> }, force, dryRun \in BOOLEAN :
       RunUpdate(args, force, dryRun, FALSE, FALSE, FALSE)
  \/ Exec
  \/ Fetch
  \/ Render
  \/ Cleanup
  \/ Scan
  \/ UpdateIgnore
  \/ WriteLock
  \/ Return

SpecPin == InitPin /\ [][NextPin]_vars


\* ---- the trust decisions
\* urls asked about: one repository in three forms, a second one, one of
\* another owner, and one whose owner's name begins like an allowed one
TrustUrls ==
  { UrlA, UrlAHttps, <<"git@", "github.com", ":", "acme", "/", "a", ".git">>, UrlB, UrlBPath,
    UrlX, <<"github.com", ":", "acme", "-", "labs", "/", "a">> }

\* the Repo fields of the sources of a configuration: exact entries and
\* wildcard patterns, in scp-like and in https form
TrustConfigs ==
  { <<>>,
    << <<"git@", "github.com", ":", "acme", "/", "a", ".git">> >>,
    << UrlB >>,
    << UrlX, UrlAHttps >>,
    << <<"github.com", ":", "acme", "/", "*">> >>,
    << <<"https://", "github.com", "/", "acme", "/", "*">> >>,
    << <<"github.com", ":", "acme", "*">> >>,
    << <<"github.com", ":", "evil", "/", "*">>, UrlB >> }

InitTrust == InitWith({CliFile(<<>>, <<>>)})

NextTrust ==
  \/ \E u \in TrustUrls, s \in TrustConfigs, allowUnknown \in BOOLEAN :
       CallEnsureTrusted(u, s, allowUnknown)
  \/ \E u \in TrustUrls, allowUnknown \in BOOLEAN :
       RunAdd(WithRef(u, "v1"), TRUE, allowUnknown, FALSE)
  \/ Return

SpecTrust == InitTrust /\ [][NextTrust]_vars

\* ---- overlays at several scopes
\* overlays of the three scopes; the org and the personal overlay both hold
\* prompts/p.md
ScopedOverlays ==
  { [scope |-> "org", source |-> WithRef(UrlB, "v1")],
    [scope |-> "project", source |-> WithRef(UrlX, "v1")],
    [scope |-> "personal", source |-> WithRef(UrlA, "v2")] }

\* Promptsfiles with no flat source and overlays of distinct scopes, in any
\* order of declaration
OverlayFiles ==
  { CliFile(<<>>, o) :
      o \in UNION { { q \in [1..k -> ScopedOverlays] :
                        \A i, j \in 1..k : i # j => q[i].scope # q[j].scope } :
                    k \in 0..MaxSources } }

InitOverlay == InitWith(OverlayFiles)

NextOverlay ==
  \/ \E o \in Options : Begin(o)
  \/ Fetch
  \/ Render
  \/ Cleanup
  \/ Scan
  \/ Drift
  \/ UpdateIgnore
  \/ WriteLock
  \/ Return

SpecOverlay == InitOverlay /\ [][NextOverlay]_vars

\* ---- calls of the Fetcher while the remote moves
InitFetcher == InitWith({CliFile(<<>>, <<>>)})

NextFetcher ==
  \/ \E ref \in GitRefs, offline \in BOOLEAN : CallClone(ref, offline)
  \/ \E ref \in GitRefs, offline \in BOOLEAN : CallUpdate(ref, offline)
  \/ \E ref \in GitRefs, offline \in BOOLEAN : CallCloneOrUpdate(ref, offline)
  \/ \E ref \in GitRefs : RemoteMoves(ref)

SpecFetcher == InitFetcher /\ [][NextFetcher]_vars

\* ---- calls of the Fetcher with tags, branches and commit ids
NextResolve ==
  \/ \E ref \in GitRefs \cup HashRefs, offline \in BOOLEAN : ResolveClone(ref, offline)
  \/ \E ref \in GitRefs \cup HashRefs, offline \in BOOLEAN : ResolveCloneOrUpdate(ref, offline)
  \/ \E ref \in GitRefs : RemoteMoves(ref)

SpecResolve == InitFetcher /\ [][NextResolve]_vars

TypeOK ==
  /\ pc \in {"idle", "exec", "fetch", "render", "cleanup", "scan", "drift", "ignore", "lock", "done"}
  /\ opts \in Options \cup {NoOpts}
  /\ touches \in 0..MaxTouches
  /\ since \in {"dirty", "installed", "restored", "interrupted", "recovered"}

\* ================================================================== claims
InstallDone == pc = "done" /\ ~opts.VerifyOnly

VerifyDone == pc = "done" /\ opts.VerifyOnly

\* the configuration of the run names a source, flat or overlay, that fails
\* the trust policy
HasUntrusted(c) ==
  \E i \in 1..Len(AllSources(c)) : ~IsTrusted(BaseURL(AllSources(c)[i]))

\* C1: during a run with allow_unknown false, every url handed to
\* Fetcher.CloneOrUpdate passes the trust policy, whether it was declared
\* as a flat source or as an overlay source.
C1_TrustGate ==
  (pc # "idle" /\ ~opts.AllowUnknown) => \A u \in fetched : IsTrusted(u)

\* a trusted source is declared before an untrusted overlay: the run ends at
\* the gate and no fetch was issued, not even for the trusted source
C1_Witness ==
  /\ pc = "done"
  /\ ~opts.AllowUnknown
  /\ cfg.sources # <<>>
  /\ IsTrusted(BaseURL(cfg.sources[1]))
  /\ cfg.overlays # <<>>
  /\ ~IsTrusted(BaseURL(cfg.overlays[1].source))
  /\ result.kind = "untrusted"
  /\ fetched = {}

\* C2: an install with allow_unknown false whose configuration names an
\* untrusted source or overlay source is over as soon as it has begun: it
\* returns the untrusted-source error, has fetched nothing and written no
\* file, has deleted nothing, and outputs, ignore file and lock are as the
\* run found them.
C2_UntrustedAbortsAll ==
  (pc # "idle" /\ ~opts.VerifyOnly /\ ~opts.AllowUnknown /\ HasUntrusted(cfg)) =>
    /\ pc = "done"
    /\ result.kind = "untrusted"
    /\ fetched = {}
    /\ written = {}
    /\ disk = snap.disk
    /\ lock = snap.lock
    /\ ignore = snap.ignore

\* a trusted source is declared before an untrusted one, and a prior lock
\* with files to clean up exists
C2_Witness ==
  /\ InstallDone
  /\ ~opts.AllowUnknown
  /\ Len(cfg.sources) = 2
  /\ IsTrusted(BaseURL(cfg.sources[1]))
  /\ ~IsTrusted(BaseURL(cfg.sources[2]))
  /\ result.kind = "untrusted"
  /\ snap.lock.present
  /\ snap.disk # <<>>

\* C3: an install that succeeds on a workspace nobody touched since the
\* previous successful install leaves the rendered outputs and the lock
\* byte-identical to what that previous install left.
C3_InstallTwice ==
  (InstallDone /\ result.kind = "ok" /\ snap.since # "dirty") =>
    (disk = snap.disk /\ lock = snap.lock)

\* the prior lock recorded the url of lock source s at another ref
Switched(l, s) ==
  l.present /\ \E j \in 1..Len(l.sources) : l.sources[j].url = s.url /\ l.sources[j].ref # s.ref

\* every path of the new files of a switched source exists
C4_FnewPresent ==
  (InstallDone /\ result.kind = "ok") =>
    \A i \in 1..Len(lockSources) :
      Switched(snap.lock, lockSources[i]) =>
        \A k \in 1..Len(lockSources[i].files) :
          lockSources[i].files[k].path \in DOMAIN disk

\* every path recorded for a switched source that is not among its new
\* files is absent
C4_FoldGone ==
  (InstallDone /\ result.kind = "ok") =>
    \A i \in 1..Len(lockSources) :
      Switched(snap.lock, lockSources[i]) =>
        LET old == oldFilesBySource[lockSources[i].url]
            new == { lockSources[i].files[k].path : k \in 1..Len(lockSources[i].files) }
        IN  \A k \in 1..Len(old) : old[k].path \notin new => old[k].path \notin DOMAIN disk

\* C4: after a successful install that switched a source from the ref the
\* prior lock recorded to another ref, every path of the source's new files
\* exists and every recorded path that is not among the new files is absent.
C4_ExactlyFnew == C4_FnewPresent /\ C4_FoldGone

\* the output path of the file the render loop is about to handle
NextOutputPath ==
  GetOutputPath(Head(todo).adapter, Head(todo).file, getAdapterConfig(cfg, Head(todo).adapter))

C6_NoWriteOnConflict ==
  (InstallDone /\ result.kind = "conflict") => written = {}

\* C7: as long as an install has not completed its lock-write step, and so
\* whenever it ends with an error (untrusted source, fetch failure, conflict,
\* write failure, strict duplicate scan, ignore update), the lock on disk is
\* the lock the run found, absent if there was none.
C7_LockUntouchedOnError ==
  (pc # "idle" /\ ~opts.VerifyOnly /\ ~(pc = "done" /\ result.kind = "ok")) =>
    lock = snap.lock

\* an install with a prior lock fails after it rendered files and collected
\* lock entries that differ from the prior lock
C7_Witness ==
  /\ InstallDone
  /\ result.kind \in {"fetch", "conflict", "io", "duplicates", "ignore"}
  /\ snap.lock.present
  /\ written # {}
  /\ lockSources # <<>>
  /\ LockWrite(lockSources) # snap.lock

\* the verify run that follows the user's change of a tracked output file
VerifyAfterTamper ==
  /\ VerifyDone
  /\ touched.op = "tamper"
  /\ Tracked(lock, touched.path)

\* C8 as stated: after the user changed the bytes of a tracked output file,
\* verify fails with a drift issue that names the file's path.
C8_DriftNamed ==
  VerifyAfterTamper => (result.kind = "drift" /\ touched.path \in result.paths)

\* C8 (amended): after the user changed the bytes of a tracked output file,
\* verify fails; unless it stops earlier, at the trust gate, at a fetch
\* error or at the strict duplicate scan, its error is a drift issue that
\* names the file's path.
C8_DriftNamedUnlessStopped ==
  VerifyAfterTamper =>
    /\ result.kind \in {"untrusted", "fetch", "duplicates", "drift"}
    /\ result.kind = "drift" => touched.path \in result.paths

C8_Witness ==
  /\ VerifyAfterTamper
  /\ disk[touched.path] = "tampered"
  /\ result.kind = "drift"
  /\ touched.path \in result.paths

\* C9: after the user deleted a tracked output file, verify fails.
C9_DeletedFails ==
  (VerifyDone /\ touched.op = "delete" /\ Tracked(lock, touched.path)) =>
    result.kind \in {"untrusted", "fetch", "duplicates", "drift"}

C9_Witness ==
  /\ VerifyDone
  /\ touched.op = "delete"
  /\ Tracked(lock, touched.path)
  /\ touched.path \notin DOMAIN disk
  /\ result.kind = "drift"
  /\ touched.path \in result.paths

\* a successful install re-run on the configuration the lock was written
\* for leaves every tracked file that had been modified with the recorded
\* content
C10_Restores ==
  (InstallDone /\ result.kind = "ok" /\ Unchanged(snap.lock, cfg)) =>
    \A p \in Modified(snap.lock, snap.disk) :
      /\ p \in DOMAIN disk
      /\ HashBytes(disk[p]) = GetFileHashes(snap.lock)[p]

\* C10 as stated: re-running install with unchanged configuration restores
\* a modified tracked file to the recorded content, and the verify that
\* follows succeeds.
C10_RestoredThenVerified ==
  /\ C10_Restores
  /\ (VerifyDone /\ since = "restored") => result.kind = "ok"

\* C10 (amended): re-running install with unchanged configuration restores
\* a modified tracked file to the recorded content, and the verify that
\* follows reports no drift: it succeeds unless it stops at the trust gate
\* or at the strict duplicate scan.
C10_RestoredThenNoDrift ==
  /\ C10_Restores
  /\ (VerifyDone /\ since = "restored") => result.kind \in {"ok", "untrusted", "duplicates"}

C10_Witness ==
  /\ VerifyDone
  /\ since = "restored"
  /\ lock.present
  /\ result.kind = "ok"

\* C11: after an install run was killed between two steps, an install
\* re-run on the same Promptsfile that succeeds is followed by a verify
\* that passes.
C11_RecoveredThenVerified ==
  (VerifyDone /\ since = "recovered") => result.kind = "ok"

\* the entries a lock holds for a base url, in document order
LockEntriesOf(l, url) == SelectSeq(l.sources, LAMBDA x : BaseURL(x.url) = url)

\* the output paths a lock records for a base url
LockPathsOf(l, url) ==
  { LockEntries(LockEntriesOf(l, url))[i].path : i \in 1..Len(LockEntries(LockEntriesOf(l, url))) }

UpdateAll == cmd.name = "update" /\ cmd.args = <<>> /\ ~cmd.force

\* C12: during and after an update with no target and without --force, no
\* pinned source of the Promptsfile has been handed to the fetcher, none of
\* its recorded files has been written, its lock entries are those from
\* before the command, and every source fetched is one of the unpinned
\* sources the command planned to update.
C12_PinnedUntouched ==
  UpdateAll =>
    /\ \A i \in 1..Len(promptsfile.sources) :
         isPinnedSource(promptsfile.sources[i]) =>
           LET url == BaseURL(promptsfile.sources[i]) IN
           /\ url \notin fetched
           /\ LockPathsOf(cmd.was.lock, url) \cap written = {}
           /\ LockEntriesOf(lock, url) = LockEntriesOf(cmd.was.lock, url)
    /\ fetched \subseteq { BaseURL(cmd.planned[i]) : i \in 1..Len(cmd.planned) }

\* the source of the Promptsfile an argument of update selects, if any
Selected(c, arg) ==
  LET m == { i \in 1..Len(c.sources) : matchesSourceURL(c.sources[i], arg) } IN
  IF m = {} THEN <<>> ELSE c.sources[Min(m)]

\* an update without --force one of whose arguments selects a pinned source
NamesPinned ==
  /\ cmd.name = "update"
  /\ ~cmd.force
  /\ \E k \in 1..Len(cmd.args) :
       /\ Selected(cmd.was.promptsfile, cmd.args[k]) # <<>>
       /\ isPinnedSource(Selected(cmd.was.promptsfile, cmd.args[k]))

NothingChanged ==
  /\ promptsfile = cmd.was.promptsfile
  /\ lock = cmd.was.lock
  /\ disk = cmd.was.disk
  /\ ignore = cmd.was.ignore

\* C13 (as stated): an update without --force that names a pinned source
\* ends with the pinned-source error, and Promptsfile, lock and rendered
\* files are as they were before the command.
C13_PinnedError ==
  NamesPinned => pc = "done" /\ result.kind = "pinned" /\ NothingChanged

\* the first argument of the update that selects nothing or a pinned source
FirstRefused ==
  cmd.args[Min({ k \in 1..Len(cmd.args) :
                   \/ Selected(cmd.was.promptsfile, cmd.args[k]) = <<>>
                   \/ isPinnedSource(Selected(cmd.was.promptsfile, cmd.args[k])) })]

\* C13 (amended): an update without --force that names a pinned source fails
\* before the installer runs and changes nothing; the error is the
\* pinned-source error unless the workspace has no lock file (missing-lock
\* error) or an earlier argument names no source (not-found error).
C13_PinnedRefused ==
  NamesPinned =>
    /\ pc = "done"
    /\ NothingChanged
    /\ result.kind = IF ~LockExists(cmd.was.lock) THEN "lock-missing"
                     ELSE IF Selected(cmd.was.promptsfile, FirstRefused) = <<>> THEN "not-found"
                     ELSE "pinned"

C13_Witness ==
  /\ NamesPinned
  /\ pc = "done"
  /\ result.kind = "pinned"
  /\ isPinnedSource(result.urls[1])
  /\ LockPathsOf(lock, BaseURL(result.urls[1])) # {}
  /\ LockPathsOf(lock, BaseURL(result.urls[1])) \subseteq DOMAIN disk

\* precedence of the overlay scopes: personal over project over org
ScopeRank(scope) ==
  CASE scope = "org" -> 1
    [] scope = "project" -> 2
    [] scope = "personal" -> 3
    [] OTHER -> 0

\* output path -> bytes a source renders under the configuration
OutputsOf(c, source) ==
  LET tree == RemoteTree(BaseURL(source), RefOf(source))
      jobs == Jobs(<<"cursor", "claude">>, c, tree)
  IN  [ p \in { GetOutputPath(jobs[i].adapter, jobs[i].file, getAdapterConfig(c, jobs[i].adapter)) :
                  i \in 1..Len(jobs) } |->
          LET j == jobs[CHOOSE i \in 1..Len(jobs) :
                          GetOutputPath(jobs[i].adapter, jobs[i].file,
                                        getAdapterConfig(c, jobs[i].adapter)) = p]
          IN  RenderFile(j.adapter, j.file, ReadSource(tree, j.file), getAdapterConfig(c, j.adapter)) ]

\* the overlays of the configuration that claim an output path
Claimants(c, p) ==
  { i \in 1..Len(c.overlays) : p \in DOMAIN OutputsOf(c, c.overlays[i].source) }

\* the output paths claimed by overlays of more than one scope
Contested(c) ==
  { p \in UNION { DOMAIN OutputsOf(c, c.overlays[i].source) : i \in 1..Len(c.overlays) } :
      \E i, j \in Claimants(c, p) : c.overlays[i].scope # c.overlays[j].scope }

\* the claimant of the highest scope
Winner(c, p) ==
  CHOOSE i \in Claimants(c, p) :
    \A j \in Claimants(c, p) : ScopeRank(c.overlays[j].scope) <= ScopeRank(c.overlays[i].scope)

\* C14: an install whose overlays claim one output path at several scopes,
\* and which passed the trust gate, does not end with a conflict; when it
\* succeeds the path holds the rendering of the highest scope and the lock
\* records the path for that overlay's source only.
C14_HighestScopeWins ==
  (InstallDone /\ Contested(cfg) # {} /\ result.kind # "untrusted") =>
    /\ result.kind # "conflict"
    /\ result.kind = "ok" =>
         \A p \in Contested(cfg) :
           LET w == cfg.overlays[Winner(cfg, p)].source IN
           /\ p \in DOMAIN disk
           /\ disk[p] = OutputsOf(cfg, w)[p]
           /\ \A i \in 1..Len(lock.sources) :
                (\E k \in 1..Len(lock.sources[i].files) : lock.sources[i].files[k].path = p)
                  <=> lock.sources[i].url = BaseURL(w)

\* the pipeline of a command is running or has returned
PipelineRan == pc \in {"fetch", "render", "cleanup", "scan", "ignore", "lock", "done"} /\ opts # NoOpts

C16_CIStrict ==
  (cmd.ci /\ pc \in {"exec", "fetch", "render", "cleanup", "scan", "ignore", "lock"}) =>
    opts.StrictMode

\* a remove command has ended successfully
Removed == cmd.name = "remove" /\ pc = "done" /\ result.kind = "ok"

RemovedURL == BaseURL(cmd.args[1])

\* C19: after a successful remove that could read the lock, no file that
\* the lock recorded for the removed source is on disk, and every other
\* rendered file is on disk with the bytes it had.
C19_RemovesItsFiles ==
  (Removed /\ cmd.io # "unreadable") =>
    /\ \A p \in LockPathsOf(cmd.was.lock, RemovedURL) : p \notin DOMAIN disk
    /\ \A p \in DOMAIN cmd.was.disk \ LockPathsOf(cmd.was.lock, RemovedURL) :
         p \in DOMAIN disk /\ disk[p] = cmd.was.disk[p]

\* the Promptsfile sources and the lock entries of every base url other
\* than the removed one are those from before the command, in their order
OthersUnchanged ==
  /\ promptsfile.sources = SelectSeq(cmd.was.promptsfile.sources, LAMBDA x : BaseURL(x) # RemovedURL)
  /\ promptsfile.overlays = cmd.was.promptsfile.overlays
  /\ SelectSeq(lock.sources, LAMBDA x : BaseURL(x.url) # RemovedURL)
       = SelectSeq(cmd.was.lock.sources, LAMBDA x : BaseURL(x.url) # RemovedURL)
  /\ lock.present = cmd.was.lock.present

C17_OfflineNoNetwork ==
  (last.op # "none" /\ last.offline) =>
    /\ last.net = {}
    /\ ~last.cached => (~last.ok /\ last.err \in OfflineErrors)

C17_Witness ==
  /\ last.op = "CloneOrUpdate"
  /\ last.offline
  /\ ~last.cached
  /\ ~last.ok
  /\ last.err = "offline mode: repository not cached"
  /\ last.net = {}
  /\ remote[last.ref] > 1

\* C18: a CloneOrUpdate of a ref that an earlier CloneOrUpdate of the same
\* ref resolved succeeds again, whatever calls for other refs were made in
\* between, and it returns the same commit unless the remote has moved the
\* ref past that commit and a call since then ran with offline mode
\* disabled.
C18_Idempotent ==
  (last.op = "CloneOrUpdate" /\ last.prev.known) =>
    /\ last.ok
    /\ last.commit # last.prev.commit =>
         /\ last.prev.online
         /\ last.commit[1] = last.ref
         /\ last.commit[2] > last.prev.commit[2]
         /\ last.commit[2] <= remote[last.ref]

C18_Witness ==
  /\ last.op = "CloneOrUpdate"
  /\ last.prev.known
  /\ last.prev.between
  /\ last.prev.online
  /\ last.ok
  /\ last.commit = last.prev.commit
  /\ remote[last.ref] > last.commit[2]

\* the remove command has returned one of its two lookup errors
RemoveRefused ==
  cmd.name = "remove" /\ pc = "done" /\ result.kind \in {"overlay", "not-found"}

\* C21: remove fails with the overlay or the not-found error exactly when no
\* Promptsfile source has the base url of the target, and after such a
\* failure the Promptsfile, the lock, the rendered files and the ignore file
\* are as they were before the command.
C21_RefusedRemoveChangesNothing ==
  (cmd.name = "remove" /\ pc = "done") =>
    /\ RemoveRefused <=>
         \A i \in 1..Len(cmd.was.promptsfile.sources) :
            BaseURL(cmd.was.promptsfile.sources[i]) # RemovedURL
    /\ RemoveRefused =>
         /\ promptsfile = cmd.was.promptsfile
         /\ lock = cmd.was.lock
         /\ disk = cmd.was.disk
         /\ ignore = cmd.was.ignore

\* an overlay source is refused while rendered files and a lock exist
C21_Witness ==
  /\ RemoveRefused
  /\ result.kind = "overlay"
  /\ disk # <<>>
  /\ LockExists(lock)
  /\ Len(promptsfile.overlays) > 0

\* a source that is nowhere in the Promptsfile is refused after an install
C21_WitnessNotFound ==
  /\ RemoveRefused
  /\ result.kind = "not-found"
  /\ disk # <<>>
  /\ Len(lock.sources) > 0

\* the reasons for which add rejects its argument: the format, the trust
\* policy without --allow-unknown, a Promptsfile source of the same base url
AddMustReject ==
  LET source == cmd'.args[1] IN
  \/ ~validateSourceURL(source)
  \/ ~cmd'.allow /\ ~IsTrusted(BaseURL(source))
  \/ \E i \in 1..Len(promptsfile.sources) : BaseURL(promptsfile.sources[i]) = BaseURL(source)

\* C22: an add whose argument is invalid, untrusted without --allow-unknown
\* or of the base url of a Promptsfile source returns an error at once, and
\* every add that returns an error leaves the Promptsfile, the rendered
\* files, the lock and the ignore file unchanged and starts no install.
C22_RejectedAddChangesNothing ==
  [][ (pc = "idle" /\ cmd'.name = "add") =>
        /\ AddMustReject => pc' = "done" /\ result'.kind \in {"invalid", "untrusted", "exists"}
        /\ (pc' = "done" /\ result'.kind # "ok") =>
             /\ promptsfile' = promptsfile
             /\ UNCHANGED <<disk, lock, ignore, fetched, written>> ]_vars

\* add has rejected a second ref of an installed repository
C22_Witness ==
  /\ cmd.name = "add"
  /\ pc = "done"
  /\ result.kind = "exists"
  /\ result.urls = cmd.args
  /\ BaseURL(cmd.args[1]) = BaseURL(promptsfile.sources[1])
  /\ cmd.args[1] # promptsfile.sources[1]
  /\ disk # <<>>
  /\ LockExists(lock)

\* the lines of the ignore file that open, and that close, a managed block
BeginLines == SelectSeq(ignore.lines, LAMBDA l : l \in {ManagedBegin, managedBegin})

EndLines == SelectSeq(ignore.lines, LAMBDA l : l \in {ManagedEnd, managedEnd})

\* C23: once init or install has written the ignore file, it holds exactly
\* one managed block: one begin marker and one end marker.
C23_OneManagedBlock ==
  ignore.present => Len(BeginLines) = 1 /\ Len(EndLines) = 1

\* updating the ignore file twice with the patterns of the running install,
\* in one order of the adapter loop, gives the file of the first update
UpdateTwiceSame ==
  pc = "ignore" =>
    \A order \in AdapterOrders :
       LET p == IgnorePatterns(order, cfg) IN
       IgnoreUpdate(IgnoreUpdate(ignore, p), p) = IgnoreUpdate(ignore, p)

\* C24: updating the managed block twice with the same patterns gives the
\* same ignore file, and an install that succeeds on a workspace nobody
\* touched since the previous successful install leaves the ignore file as
\* that install left it.
C24_IgnoreByteIdentical ==
  /\ UpdateTwiceSame
  /\ (InstallDone /\ result.kind = "ok" /\ snap.since # "dirty") => ignore = snap.ignore

\* C25: after every successful install, each path recorded in the lock is
\* on disk with the recorded hash, whatever the prior lock and the change of
\* configuration were.
C25_LockMatchesDisk ==
  (InstallDone /\ result.kind = "ok") =>
    \A i \in 1..Len(lock.sources) :
      \A j \in 1..Len(lock.sources[i].files) :
         LET f == lock.sources[i].files[j] IN
         /\ CalculateFileHash(disk, f.path).ok
         /\ CalculateFileHash(disk, f.path).hash = f.hash

\* the prior lock recorded the url of lock source s at the ref it has now
SameRef(l, s) ==
  l.present /\ \E j \in 1..Len(l.sources) : l.sources[j].url = s.url /\ l.sources[j].ref = s.ref

\* C26: after a successful install that switched the ref of a source, every
\* path the prior lock recorded for another source whose ref did not change
\* is on disk.
C26_OthersRemain ==
  (InstallDone /\ result.kind = "ok"
     /\ \E i \in 1..Len(lockSources) : Switched(snap.lock, lockSources[i])) =>
    \A i \in 1..Len(lockSources) :
      (SameRef(snap.lock, lockSources[i]) /\ ~Switched(snap.lock, lockSources[i])) =>
        LET old == oldFilesBySource[lockSources[i].url] IN
        \A k \in 1..Len(old) : old[k].path \in DOMAIN disk

\* one source went from v1 to v2 and lost a file, the other stayed at its
\* ref and its files were on disk before the run and still are
C26_Witness ==
  /\ InstallDone
  /\ result.kind = "ok"
  /\ Len(lockSources) = 2
  /\ \E i, j \in 1..2 :
       /\ Switched(snap.lock, lockSources[i])
       /\ \E k \in 1..Len(oldFilesBySource[lockSources[i].url]) :
            oldFilesBySource[lockSources[i].url][k].path \notin DOMAIN disk
       /\ SameRef(snap.lock, lockSources[j])
       /\ oldFilesBySource[lockSources[j].url] # <<>>
       /\ \A k \in 1..Len(oldFilesBySource[lockSources[j].url]) :
            /\ oldFilesBySource[lockSources[j].url][k].path \in DOMAIN snap.disk
            /\ oldFilesBySource[lockSources[j].url][k].path \in DOMAIN disk

\* C27: after a successful install, for every source of the run whose
\* canonical url is that of an entry of the prior lock, no path of that entry
\* that the run did not render is on disk: orphan cleanup finds the prior
\* entry although the url is written in another form.
C27_CanonicalMatch ==
  (InstallDone /\ result.kind = "ok" /\ snap.lock.present) =>
    \A i \in 1..Len(lockSources) : \A j \in 1..Len(snap.lock.sources) :
      canonical(snap.lock.sources[j].url) = canonical(lockSources[i].url) =>
        \A k \in 1..Len(snap.lock.sources[j].files) :
          LET p == snap.lock.sources[j].files[k].path IN
          p \notin DOMAIN renderedFiles => p \notin DOMAIN disk

\* C28: the cache directory that a successful install has used for a source
\* is the one an earlier install used for an entry of the prior lock exactly
\* when the two urls have the same canonical form.
C28_CacheByCanonical ==
  (InstallDone /\ result.kind = "ok" /\ snap.lock.present) =>
    \A i \in 1..Len(lockSources) : \A j \in 1..Len(snap.lock.sources) :
      (canonical(snap.lock.sources[j].url) = canonical(lockSources[i].url))
        <=> (repoPath(snap.lock.sources[j].url) = repoPath(lockSources[i].url))

\* the resolution the order tag, local branch, remote-tracking branch after
\* a fetch, commit id prefix gives on a cached repository
ExpectedCheckout(repo, rem, ref) ==
  LET f == FetchRefs(repo, rem) IN
  IF ref \in TagNames /\ repo.tags[ref] > 0
  THEN [ok |-> TRUE, commit |-> Commit(ref, repo.tags[ref])]
  ELSE IF ref \in BranchNames /\ repo.heads[ref] > 0
  THEN [ok |-> TRUE, commit |-> Commit(ref, repo.heads[ref])]
  ELSE IF ref \in TagNames /\ f.tags[ref] > 0
  THEN [ok |-> TRUE, commit |-> Commit(ref, f.tags[ref])]
  ELSE IF ref \in BranchNames /\ rem[ref] > 0
  THEN [ok |-> TRUE, commit |-> Commit(ref, rem[ref])]
  ELSE IF ref \in HashRefs /\ HasObject(f)
  THEN [ok |-> TRUE, commit |-> HashCommit]
  ELSE [ok |-> FALSE, commit |-> <<>>]

\* C29: a Clone of a cached repository with offline mode disabled checks
\* out the commit that the first matching form gives, trying the tag, the
\* local branch, the remote-tracking branch after a fetch and the commit id
\* prefix in this order, and fails only when no form matches.
C29_ResolutionOrder ==
  (last.op = "Clone" /\ last.cached /\ ~last.offline) =>
    LET e == ExpectedCheckout(last.before, last.rem, last.ref) IN
    /\ last.ok = e.ok
    /\ e.ok => last.commit = e.commit

\* C30: a CloneOrUpdate with offline mode disabled that fails has attempted
\* a clone or a fetch, whatever the form of the ref.
C30_FetchBeforeUnknown ==
  (last.op = "CloneOrUpdate" /\ ~last.offline /\ ~last.ok) => last.net # {}

\* C31: when CloneOrUpdate is called without the offline option for a branch
\* the cache already tracks, it returns the commit the branch names on the
\* remote at that time (the commit Execute records in the lock)
C31_BranchFollowsRemote ==
  ( /\ last.op = "CloneOrUpdate"
    /\ last.ref \in BranchNames
    /\ ~last.offline
    /\ last.before.cloned
    /\ last.before.heads[last.ref] > 0
    /\ last.ok )
  => last.commit = Commit(last.ref, last.rem[last.ref])

\* C32: the list of sources a run processes holds no source twice, so a
\* source declared both in sources and as an overlay source is fetched and
\* rendered once and no conflict names the same source on both sides
C32_SharedSourceOnce ==
  /\ \A i, j \in 1..Len(allSources) : i # j => allSources[i] # allSources[j]
  /\ (pc = "done" /\ result.kind = "conflict") => result.urls[1] # result.urls[2]

\* C33: the duplicates an install reports are those every ordering of its
\* sources would report
C33_OrderIndependent ==
  (InstallDone /\ result.kind \in {"ok", "conflict"})
  => \A s \in Orderings(cfg.sources) :
       ReportedDuplicates(s, cfg) = (IF result.kind = "conflict" THEN result.paths ELSE {})

\* the run reports what the source loop finds for the sources as listed
C33_ReportedAsListed ==
  (InstallDone /\ result.kind \in {"ok", "conflict"})
  => ReportedDuplicates(cfg.sources, cfg) = (IF result.kind = "conflict" THEN result.paths ELSE {})

\* an install run that got as far as the post-write scan
ScanReached ==
  InstallDone /\ result.kind \notin {"lock-missing", "untrusted", "fetch", "conflict", "io"}

\* C34: when the post-write scan of an install finds duplicate basenames, a
\* strict run ends with the duplicates error and leaves ignore file and lock
\* alone; a run that is not strict prints a warning and goes on to the
\* ignore block and the lock
C34_ScanStrictOrWarn ==
  (ScanReached /\ ScanIssues(cfg, disk) # {})
  => IF opts.StrictMode
     THEN result.kind = "duplicates" /\ ignore = snap.ignore /\ lock = snap.lock
     ELSE /\ warnings # {}
          /\ result.kind \in {"ok", "ignore"}
          /\ result.kind = "ok" => lock = LockWrite(lockSources) /\ ignore.present

\* the same without the warning
C34_ScanStrictOrGoOn ==
  (ScanReached /\ ScanIssues(cfg, disk) # {})
  => IF opts.StrictMode
     THEN result.kind = "duplicates" /\ ignore = snap.ignore /\ lock = snap.lock
     ELSE /\ result.kind \in {"ok", "ignore"}
          /\ result.kind = "ok" => lock = LockWrite(lockSources) /\ ignore.present

\* the branch names that do not pin a source
UnpinnedBranches == { <<"main">>, <<"master">>, <<"develop">>, <<"dev">> }

\* the source has a ref and the ref is none of the unpinned branch names
Pinned(source) == RefOf(source) # <<>> /\ RefOf(source) \notin UnpinnedBranches

\* the sources an update without --force looks at: all of them, or the first
\* one that matches the argument
UpdateCandidates(c, args) ==
  IF args = <<>> THEN c.sources
  ELSE LET m == { i \in 1..Len(c.sources) : matchesSourceURL(c.sources[i], args[1]) }
       IN  IF m = {} THEN <<>> ELSE << c.sources[Min(m)] >>

\* C35: an update without --force plans exactly the sources it looks at that
\* are not pinned, and refuses a named source exactly when it is pinned; a
\* source is pinned iff it has a ref that is none of main, master, develop,
\* dev
C35_PinnedIffRefNotBranch ==
  (cmd.name = "update" /\ ~cmd.force /\ Len(cmd.args) <= 1 /\ LockExists(cmd.was.lock))
  => LET cand == UpdateCandidates(Load(cmd.was.promptsfile), cmd.args) IN
     /\ cmd.planned = SelectSeq(cand, LAMBDA x : ~Pinned(x))
     /\ (pc = "done" /\ result.kind = "pinned")
          <=> (pc = "done" /\ cmd.args # <<>> /\ \E i \in 1..Len(cand) : Pinned(cand[i]))

\* an update of everything that plans the source without a ref and leaves
\* out the pinned one
C35_Witness ==
  /\ cmd.name = "update" /\ ~cmd.force /\ cmd.args = <<>> /\ LockExists(cmd.was.lock)
  /\ \E i \in 1..Len(cmd.planned) : RefOf(cmd.planned[i]) = <<>>
  /\ \E i \in 1..Len(cmd.was.promptsfile.sources) :
       /\ Pinned(cmd.was.promptsfile.sources[i])
       /\ \A j \in 1..Len(cmd.planned) : cmd.planned[j] # cmd.was.promptsfile.sources[i]

\* the canonical form of url equals that of an entry, or begins with an
\* entry that ends in "*", canonical and without the "*"
Permitted(url, entries) ==
  \/ \E i \in 1..Len(entries) : canonical(url) = canonical(entries[i])
  \/ \E i \in 1..Len(entries) :
       /\ HasSuffix(entries[i], <<"*">>)
       /\ HasPrefix(canonical(url), TrimSuffix(canonical(entries[i]), <<"*">>))

C37_OnlyNamedUpdated ==
  (cmd.name = "update" /\ cmd.args # <<>>) =>
    \A i \in 1..Len(promptsfile.sources) :
      (\A k \in 1..Len(cmd.args) : ~matchesSourceURL(promptsfile.sources[i], cmd.args[k])) =>
        LET url == BaseURL(promptsfile.sources[i]) IN
        /\ url \notin fetched
        /\ LockPathsOf(cmd.was.lock, url) \cap written = {}
        /\ LockEntriesOf(lock, url) = LockEntriesOf(cmd.was.lock, url)

\* C38: no step of a verify run, from its start to its return, changes the
\* Promptsfile, a rendered file, the ignore file or the lock, whatever the
\* run finds
C38_VerifyChangesNothing ==
  [][ (opts.VerifyOnly \/ opts'.VerifyOnly)
        => /\ UNCHANGED <<promptsfile, disk, lock, ignore>>
           /\ written' = {} ]_vars

\* a verify run has failed on a workspace an install would have changed: a
\* tracked file is tampered with, or the lock records a file that the
\* source no longer renders
C38_Witness ==
  /\ VerifyDone
  /\ result.kind = "drift"
  /\ \E i \in 1..Len(lockSources), p \in DOMAIN disk :
       /\ Tracked(lock, p)
       /\ p \in LockPathsOf(lock, lockSources[i].url)
       /\ \A k \in 1..Len(lockSources[i].files) : lockSources[i].files[k].path # p

\* C39: when add has returned an error, whether it refused the source or the
\* installation it started failed, the Promptsfile is the one from before
\* the command
C39_FailedAddLeavesPromptsfile ==
  (cmd.name = "add" /\ pc = "done" /\ result.kind # "ok")
  => promptsfile = cmd.was.promptsfile

\* C40: when remove has returned an error, the rendered files and the lock
\* are those from before the command; and whenever a remove has deleted a
\* rendered file or changed the lock, the source is gone from the
\* Promptsfile
C40_FailedRemoveChangesNothing ==
  (cmd.name = "remove" /\ pc = "done") =>
    /\ result.kind # "ok" => disk = cmd.was.disk /\ lock = cmd.was.lock
    /\ (disk # cmd.was.disk \/ lock # cmd.was.lock) =>
         \A i \in 1..Len(promptsfile.sources) : BaseURL(promptsfile.sources[i]) # RemovedURL

====
